---- MODULE Spec2Model ----
(***************************************************************************)
(* Model of src/src/utils/advanced_video_processor.py: the video content   *)
(* analyzer, the strategy selector, the four frame extraction strategies   *)
(* and the batch orchestrator of AdvancedVideoProcessor.                   *)
(*                                                                         *)
(* A video is a record: whether the stream opens, its frame rate in        *)
(* thousandths of a frame per second, the frame count the container        *)
(* reports, the number of pixels of a frame, the decoded frames and the    *)
(* positions at which a read fails.  A frame is a uniform gray level plus  *)
(* the set of feature descriptors ORB finds in it (empty = None).          *)
(* Every method is an operator that returns what the call does: whether it *)
(* raised, the value returned, the trace of capture/file events and the    *)
(* extraction logs saved.  Rationals (Python floats) are [num, den].       *)
(*                                                                         *)
(* Also modelled: the pre-labeler of src/src/utils/auto_etiquetador.py     *)
(* (class mapping, run_auto_label over the images of the Frame Store) and  *)
(* the dataset merge tool of src/src/utils/merge_tool.py (data.yaml        *)
(* loading, interactive class mapping, process_and_copy).  A label file is *)
(* a sequence of lines, a line the sequence of its fields.  The           *)
(* configurator of src/src/setup_work.py writes the two class maps the     *)
(* tools read; what the user types is a sequence of answers.               *)
(***************************************************************************)
EXTENDS Integers, Sequences, FiniteSets, TLC

VARIABLES pc, call, result, events, fs, logs, batch, labels, labeler, merge, setup

vars == <<pc, call, result, events, fs, logs, batch, labels, labeler, merge, setup>>

\* the state of the pre-labeler, of the merge tool and of the configurator
tools == <<labels, labeler, merge, setup>>

\* Bounds of the model.
MaxLen == 3
MaxCap == 4
MaxVideos == 2
MaxImages == 2
MaxRuns == 2

------------------------------------------------------------------------------
\* Helpers

Min(a, b) == IF a < b THEN a ELSE b
Max(a, b) == IF a > b THEN a ELSE b
Abs(a) == IF a < 0 THEN 0 - a ELSE a

Rat(n, d) == [num |-> n, den |-> d]
\* r > k and r < k for a rational r with den > 0 and an integer k
GT(r, k) == (r.num \div r.den > k) \/ (r.num \div r.den = k /\ r.num % r.den > 0)
LT(r, k) == r.num \div r.den < k

\* sum of f(s[i]) over lo <= i <= hi, halving the range
RECURSIVE SumRange(_, _, _, _)
SumRange(s, lo, hi, square) ==
  IF lo > hi THEN 0
  ELSE IF lo = hi THEN (IF square THEN s[lo] * s[lo] ELSE s[lo])
  ELSE LET mid == (lo + hi) \div 2
       IN SumRange(s, lo, mid, square) + SumRange(s, mid + 1, hi, square)

SumSeq(s) == SumRange(s, 1, Len(s), FALSE)
SumSq(s) == SumRange(s, 1, Len(s), TRUE)

\* np.mean and np.var of a non-empty list of integers
np_mean(s) == Rat(SumSeq(s), Len(s))
np_var(s) == Rat(Len(s) * SumSq(s) - SumSeq(s) * SumSeq(s), Len(s) * Len(s))

\* f"{n:06d}"
Format06d(n) ==
  IF n < 10 THEN "00000" \o ToString(n)
  ELSE IF n < 100 THEN "0000" \o ToString(n)
  ELSE IF n < 1000 THEN "000" \o ToString(n)
  ELSE IF n < 10000 THEN "00" \o ToString(n)
  ELSE IF n < 100000 THEN "0" \o ToString(n)
  ELSE ToString(n)

------------------------------------------------------------------------------
\* The capture library as the code uses it

\* a caller that does not look at cap.isOpened()
isOpened_Unchecked(v) == TRUE

isOpened(v) == v.openable

\* cap.set(CAP_PROP_POS_FRAMES, p); cap.read()  /  a sequential cap.read() at p
ReadOk(v, p) == p < Len(v.frames) /\ p \notin v.bad
FrameAt(v, p) == v.frames[p + 1]

\* cv2.countNonZero(cv2.absdiff(prev_gray, gray)) on uniform frames
DiffCount(v, prev_gray, gray) == IF prev_gray # gray THEN v.pixels ELSE 0

\* cv2.countNonZero(cv2.threshold(cv2.absdiff(prev_gray, gray), 25, 255, BINARY))
ThreshCount(v, prev_gray, gray) == IF Abs(prev_gray - gray) > 25 THEN v.pixels ELSE 0

\* len(bf.match(descriptors, prev_descriptors)) with crossCheck
MatchCount(descriptors, prev_descriptors) == Cardinality(descriptors \cap prev_descriptors)

\* Events of a call
Ev(type, pos, ok, path, video) ==
  [type |-> type, pos |-> pos, ok |-> ok, path |-> path, video |-> video]
OpenEv(v) == Ev("open", 0, isOpened(v), "", v.name)
ReleaseEv(v) == Ev("release", 0, TRUE, "", v.name)
ReadEv(v, p) == Ev("read", p, ReadOk(v, p), "", v.name)
WriteEv(v, p, path) == Ev("write", p, TRUE, path, v.name)

\* What a call does
Ret(value, ev, lg) == [raised |-> FALSE, exc |-> "", value |-> value, ev |-> ev, logs |-> lg]
Raise(exc, ev, lg) == [raised |-> TRUE, exc |-> exc, value |-> 0, ev |-> ev, logs |-> lg]

\* _save_extraction_log
_save_extraction_log(v, log_data, strategy) ==
  [file |-> "results/processing_logs/" \o v.name \o "_" \o strategy \o ".json",
   video |-> v.name, strategy |-> strategy, frames |-> log_data]

------------------------------------------------------------------------------
\* Strategy selector

\* the selector with the motion rules tried before the duration rule
_recommend_strategy_DurationLast(avg_motion, motion_variance, duration) ==
  IF GT(avg_motion, 3000) /\ GT(motion_variance, 1000000) THEN "motion_based"
  ELSE IF LT(avg_motion, 500) THEN "keyframes"
  ELSE IF GT(duration, 1800) THEN "time_intervals"
  ELSE "adaptive"

_recommend_strategy(avg_motion, motion_variance, duration) ==
  IF GT(duration, 1800) THEN "time_intervals"
  ELSE IF GT(avg_motion, 3000) /\ GT(motion_variance, 1000000) THEN "motion_based"
  ELSE IF LT(avg_motion, 500) THEN "keyframes"
  ELSE "adaptive"

------------------------------------------------------------------------------
\* Video content analyzer

None == [ok |-> FALSE]

\* one iteration of the sampling loop; st.stop is set by its break
AnalyzeStep(v, frame_interval, st) ==
  IF st.stop THEN st
  ELSE LET frame_pos == st.i * frame_interval
           ev1 == Append(st.ev, ReadEv(v, frame_pos))
       IN IF ~ReadOk(v, frame_pos) THEN [st EXCEPT !.stop = TRUE, !.ev = ev1]
          ELSE LET gray == FrameAt(v, frame_pos).gray
                   motion_pixels == DiffCount(v, st.prev_gray, gray)
               IN [stop |-> FALSE, i |-> st.i + 1, prev_gray |-> gray,
                   motion_levels |-> Append(st.motion_levels, motion_pixels),
                   brightness_levels |-> Append(st.brightness_levels, gray),
                   ev |-> ev1]

\* n iterations of the loop from st, or fewer if it breaks (the iterations are
\* halved, not chained, to keep the evaluation shallow)
RECURSIVE AnalyzeLoop(_, _, _, _)
AnalyzeLoop(v, frame_interval, st, n) ==
  IF n = 0 THEN st
  ELSE IF n = 1 THEN AnalyzeStep(v, frame_interval, st)
  ELSE LET half == AnalyzeLoop(v, frame_interval, st, n \div 2)
       IN IF half.stop THEN half
          ELSE AnalyzeLoop(v, frame_interval, half, n - (n \div 2))

\* the classification with the lower threshold tried first
ContentType_ModerateFirst(avg_motion) ==
  IF GT(avg_motion, 1000) THEN "movimiento_moderado"
  ELSE IF GT(avg_motion, 5000) THEN "alto_movimiento"
  ELSE "estatico"

ContentType(avg_motion) ==
  IF GT(avg_motion, 5000) THEN "alto_movimiento"
  ELSE IF GT(avg_motion, 1000) THEN "movimiento_moderado"
  ELSE "estatico"

analyze_video_content(v) ==
  IF ~isOpened(v) THEN Ret(None, <<OpenEv(v)>>, <<>>)
  ELSE
    LET fps == v.fps
        total_frames == v.total_frames
        duration == IF fps > 0 THEN Rat(total_frames * 1000, fps) ELSE Rat(0, 1)
        sample_frames == Min(100, total_frames)
    IN IF sample_frames = 0
       THEN Raise("ZeroDivisionError", <<OpenEv(v)>>, <<>>)
       ELSE
         LET frame_interval == Max(1, total_frames \div sample_frames)
             ev0 == <<OpenEv(v), ReadEv(v, 0)>>
         IN IF ~ReadOk(v, 0) THEN Ret(None, ev0, <<>>)
            ELSE
              LET acc == AnalyzeLoop(v, frame_interval,
                           [stop |-> FALSE, i |-> 0, prev_gray |-> FrameAt(v, 0).gray,
                            motion_levels |-> <<>>, brightness_levels |-> <<>>,
                            ev |-> ev0],
                           sample_frames)
                  avg_motion == np_mean(acc.motion_levels)
                  motion_variance == np_var(acc.motion_levels)
                  avg_brightness == np_mean(acc.brightness_levels)
              IN Ret([ok |-> TRUE,
                      filename |-> v.name,
                      duration_minutes |-> Rat(duration.num, duration.den * 60),
                      total_frames |-> total_frames,
                      fps |-> fps,
                      resolution |-> v.pixels,
                      avg_motion |-> avg_motion,
                      motion_variance |-> motion_variance,
                      avg_brightness |-> avg_brightness,
                      content_type |-> ContentType(avg_motion),
                      recommended_strategy |->
                        _recommend_strategy(avg_motion, motion_variance, duration)],
                     Append(acc.ev, ReleaseEv(v)), <<>>)

------------------------------------------------------------------------------
\* Extraction strategies

MkdirEv(v, output_dir) == Ev("mkdir", 0, TRUE, output_dir, v.name)

\* the log entry if it did not record the frame number
LogEntry_FrameZero(frame_num, fps, filename, strategy) ==
  [frame_number |-> 0, timestamp |-> Rat(0, fps),
   filename |-> filename, strategy |-> strategy]

LogEntry(frame_num, fps, filename, strategy) ==
  [frame_number |-> frame_num, timestamp |-> Rat(frame_num * 1000, fps),
   filename |-> filename, strategy |-> strategy]

\* len(range(0, stop, step))
RangeLen(stop, step) == (stop + step - 1) \div step

\* int(fps * interval_seconds), fps in thousandths
FramesPerInterval_NoFps(fps, interval_seconds) == interval_seconds

FramesPerInterval(fps, interval_seconds) == (fps * interval_seconds) \div 1000

\* the loop body if a failed read ended the loop
TimeStep_BreakOnFailure(v, output_dir, max_frames, frames_per_interval, st) ==
  IF st.stop THEN st
  ELSE IF st.saved_count >= max_frames THEN [st EXCEPT !.stop = TRUE]
  ELSE LET frame_num == st.frame_num
           ev1 == Append(st.ev, ReadEv(v, frame_num))
       IN IF ReadOk(v, frame_num)
          THEN LET filename == "interval_" \o Format06d(st.saved_count) \o ".jpg"
                   output_path == output_dir \o "/" \o filename
               IN [stop |-> FALSE,
                   frame_num |-> frame_num + frames_per_interval,
                   saved_count |-> st.saved_count + 1,
                   ev |-> Append(ev1, WriteEv(v, frame_num, output_path)),
                   log_data |-> Append(st.log_data,
                      LogEntry(frame_num, v.fps, filename, "time_intervals"))]
          ELSE [st EXCEPT !.stop = TRUE, !.ev = ev1]

\* one iteration of the loop over range(0, total_frames, frames_per_interval)
TimeStep(v, output_dir, max_frames, frames_per_interval, st) ==
  IF st.stop THEN st
  ELSE IF st.saved_count >= max_frames THEN [st EXCEPT !.stop = TRUE]
  ELSE LET frame_num == st.frame_num
           ev1 == Append(st.ev, ReadEv(v, frame_num))
       IN IF ReadOk(v, frame_num)
          THEN LET filename == "interval_" \o Format06d(st.saved_count) \o ".jpg"
                   output_path == output_dir \o "/" \o filename
               IN [stop |-> FALSE,
                   frame_num |-> frame_num + frames_per_interval,
                   saved_count |-> st.saved_count + 1,
                   ev |-> Append(ev1, WriteEv(v, frame_num, output_path)),
                   log_data |-> Append(st.log_data,
                      LogEntry(frame_num, v.fps, filename, "time_intervals"))]
          ELSE [st EXCEPT !.frame_num = frame_num + frames_per_interval, !.ev = ev1]

RECURSIVE TimeLoop(_, _, _, _, _, _)
TimeLoop(v, output_dir, max_frames, frames_per_interval, st, n) ==
  IF n = 0 THEN st
  ELSE IF n = 1 THEN TimeStep(v, output_dir, max_frames, frames_per_interval, st)
  ELSE LET half == TimeLoop(v, output_dir, max_frames, frames_per_interval, st, n \div 2)
       IN IF half.stop THEN half
          ELSE TimeLoop(v, output_dir, max_frames, frames_per_interval, half,
                        n - (n \div 2))

extract_time_intervals(v, output_dir, interval_seconds, max_frames) ==
  LET ev0 == <<MkdirEv(v, output_dir), OpenEv(v)>>
  IN IF ~isOpened(v) THEN Ret(0, ev0, <<>>)
     ELSE
       LET frames_per_interval == FramesPerInterval(v.fps, interval_seconds)
       IN IF frames_per_interval = 0
          THEN Raise("ValueError", ev0, <<>>)
          ELSE LET r == TimeLoop(v, output_dir, max_frames, frames_per_interval,
                          [stop |-> FALSE, frame_num |-> 0, saved_count |-> 0,
                           ev |-> ev0, log_data |-> <<>>],
                          RangeLen(v.total_frames, frames_per_interval))
               IN Ret(r.saved_count, Append(r.ev, ReleaseEv(v)),
                      <<_save_extraction_log(v, r.log_data, "time_intervals")>>)

\* a reference that moves on only when the frame was saved
MotionReference_OnlyWhenSaved(saved, prev_gray, gray) == IF saved THEN gray ELSE prev_gray

\* prev_gray after an iteration of the motion loop that looked at a frame
MotionReference(saved, prev_gray, gray) == gray

\* one iteration of the while loop: st.pos is the position of the stream,
\* st.stop is set by the break, st.raised by the division by an fps of 0
MotionStep(v, output_dir, motion_threshold, max_frames, st) ==
  IF st.stop THEN st
  ELSE
    LET ev1 == Append(st.ev, ReadEv(v, st.pos))
    IN IF ~ReadOk(v, st.pos) \/ st.saved_count >= max_frames
       THEN [st EXCEPT !.stop = TRUE, !.ev = ev1]
       ELSE
         LET gray == FrameAt(v, st.pos).gray
             motion_pixels == ThreshCount(v, st.prev_gray, gray)
         IN IF motion_pixels > motion_threshold
            THEN IF v.fps = 0
                 THEN [st EXCEPT !.stop = TRUE, !.raised = TRUE, !.ev = ev1]
                 ELSE LET filename == "motion_" \o Format06d(st.saved_count) \o ".jpg"
                          output_path == output_dir \o "/" \o filename
                      IN [stop |-> FALSE, raised |-> FALSE,
                          pos |-> st.pos + 1,
                          frame_num |-> st.frame_num + 1,
                          saved_count |-> st.saved_count + 1,
                          prev_gray |-> MotionReference(TRUE, st.prev_gray, gray),
                          ev |-> Append(ev1, WriteEv(v, st.pos, output_path)),
                          log_data |-> Append(st.log_data,
                             LogEntry(st.frame_num, v.fps, filename, "motion_based")
                             @@ [motion_pixels |-> motion_pixels])]
            ELSE [st EXCEPT !.pos = @ + 1, !.frame_num = @ + 1,
                            !.prev_gray = MotionReference(FALSE, st.prev_gray, gray),
                            !.ev = ev1]

RECURSIVE MotionLoop(_, _, _, _, _, _)
MotionLoop(v, output_dir, motion_threshold, max_frames, st, n) ==
  IF n = 0 THEN st
  ELSE IF n = 1 THEN MotionStep(v, output_dir, motion_threshold, max_frames, st)
  ELSE LET half == MotionLoop(v, output_dir, motion_threshold, max_frames, st, n \div 2)
       IN IF half.stop THEN half
          ELSE MotionLoop(v, output_dir, motion_threshold, max_frames, half,
                          n - (n \div 2))

\* the while loop ends at the latest with the read past the last frame
extract_motion_based(v, output_dir, motion_threshold, max_frames) ==
  LET ev0 == <<MkdirEv(v, output_dir), OpenEv(v)>>
  IN IF ~isOpened(v) THEN Ret(0, ev0, <<>>)
     ELSE IF ~ReadOk(v, 0) THEN Ret(0, Append(ev0, ReadEv(v, 0)), <<>>)
     ELSE
       LET r == MotionLoop(v, output_dir, motion_threshold, max_frames,
                   [stop |-> FALSE, raised |-> FALSE, pos |-> 1, frame_num |-> 0,
                    saved_count |-> 0, prev_gray |-> FrameAt(v, 0).gray,
                    ev |-> Append(ev0, ReadEv(v, 0)), log_data |-> <<>>],
                   Len(v.frames))
       IN IF r.raised THEN Raise("ZeroDivisionError", r.ev, <<>>)
          ELSE Ret(r.saved_count, Append(r.ev, ReleaseEv(v)),
                   <<_save_extraction_log(v, r.log_data, "motion_based")>>)

\* is_keyframe of a candidate with these descriptors (the empty set is None)
IsKeyframe(descriptors, prev_descriptors) ==
  IF prev_descriptors = {} THEN TRUE
  ELSE IF descriptors # {} /\ prev_descriptors # {}
       THEN 10 * MatchCount(descriptors, prev_descriptors) < 6 * Cardinality(descriptors)
       ELSE FALSE

\* one iteration of the loop over range(0, total_frames, frame_interval)
KeyStep(v, output_dir, max_frames, frame_interval, st) ==
  IF st.stop THEN st
  ELSE IF st.saved_count >= max_frames THEN [st EXCEPT !.stop = TRUE]
  ELSE
    LET frame_num == st.frame_num
        ev1 == Append(st.ev, ReadEv(v, frame_num))
    IN IF ~ReadOk(v, frame_num)
       THEN [st EXCEPT !.frame_num = frame_num + frame_interval, !.ev = ev1]
       ELSE
         LET descriptors == FrameAt(v, frame_num).desc
         IN IF IsKeyframe(descriptors, st.prev_descriptors)
            THEN IF v.fps = 0
                 THEN [st EXCEPT !.stop = TRUE, !.raised = TRUE, !.ev = ev1]
                 ELSE LET filename == "keyframe_" \o Format06d(st.saved_count) \o ".jpg"
                          output_path == output_dir \o "/" \o filename
                      IN [stop |-> FALSE, raised |-> FALSE,
                          frame_num |-> frame_num + frame_interval,
                          saved_count |-> st.saved_count + 1,
                          prev_descriptors |-> descriptors,
                          ev |-> Append(ev1, WriteEv(v, frame_num, output_path)),
                          log_data |-> Append(st.log_data,
                             LogEntry(frame_num, v.fps, filename, "keyframes")
                             @@ [keypoints_count |-> Cardinality(descriptors)])]
            ELSE [st EXCEPT !.frame_num = frame_num + frame_interval, !.ev = ev1]

RECURSIVE KeyLoop(_, _, _, _, _, _)
KeyLoop(v, output_dir, max_frames, frame_interval, st, n) ==
  IF n = 0 THEN st
  ELSE IF n = 1 THEN KeyStep(v, output_dir, max_frames, frame_interval, st)
  ELSE LET half == KeyLoop(v, output_dir, max_frames, frame_interval, st, n \div 2)
       IN IF half.stop THEN half
          ELSE KeyLoop(v, output_dir, max_frames, frame_interval, half, n - (n \div 2))

extract_keyframes(v, output_dir, max_frames) ==
  LET ev0 == <<MkdirEv(v, output_dir), OpenEv(v)>>
  IN IF ~isOpened(v) THEN Ret(0, ev0, <<>>)
     ELSE IF max_frames = 0 THEN Raise("ZeroDivisionError", ev0, <<>>)
     ELSE
       LET frame_interval == Max(1, v.total_frames \div max_frames)
           r == KeyLoop(v, output_dir, max_frames, frame_interval,
                   [stop |-> FALSE, raised |-> FALSE, frame_num |-> 0,
                    saved_count |-> 0, prev_descriptors |-> {},
                    ev |-> ev0, log_data |-> <<>>],
                   RangeLen(v.total_frames, frame_interval))
       IN IF r.raised THEN Raise("ZeroDivisionError", r.ev, <<>>)
          ELSE Ret(r.saved_count, Append(r.ev, ReleaseEv(v)),
                   <<_save_extraction_log(v, r.log_data, "keyframes")>>)

extract_adaptive(v, output_dir, max_frames) ==
  LET analysis == analyze_video_content(v)
  IN IF analysis.raised THEN Raise(analysis.exc, analysis.ev, <<>>)
     ELSE IF ~analysis.value.ok THEN Ret(0, analysis.ev, <<>>)
     ELSE
       LET time_frames == max_frames \div 2
           motion_frames == max_frames \div 4
           keyframe_frames == max_frames \div 4
           t == extract_time_intervals(v, output_dir \o "/time_based", 10, time_frames)
       IN IF t.raised THEN Raise(t.exc, analysis.ev \o t.ev, t.logs)
          ELSE
            LET m == extract_motion_based(v, output_dir \o "/motion_based", 800,
                       motion_frames)
            IN IF m.raised THEN Raise(m.exc, analysis.ev \o t.ev \o m.ev, t.logs \o m.logs)
               ELSE
                 LET k == extract_keyframes(v, output_dir \o "/keyframes", keyframe_frames)
                 IN IF k.raised
                    THEN Raise(k.exc, analysis.ev \o t.ev \o m.ev \o k.ev,
                               t.logs \o m.logs \o k.logs)
                    ELSE Ret(t.value + m.value + k.value,
                             analysis.ev \o t.ev \o m.ev \o k.ev,
                             t.logs \o m.logs \o k.logs)

------------------------------------------------------------------------------
\* Videos the operations are called on

Video(name, openable, fps, total_frames, pixels, frames, bad) ==
  [name |-> name, openable |-> openable, fps |-> fps, total_frames |-> total_frames,
   pixels |-> pixels, frames |-> frames, bad |-> bad]

\* a featureless dark frame, a dark frame with features, a bright frame that
\* shares one feature of three with the dark one
Featureless == [gray |-> 0, desc |-> {}]
Dark == [gray |-> 0, desc |-> {1, 2, 3}]
Bright == [gray |-> 100, desc |-> {1, 4, 5}]
FrameKinds == {Featureless, Dark, Bright}

FrameSeqs == UNION {[1..n -> FrameKinds] : n \in 1..MaxLen}
BadSets(fr) == {{}} \cup {{p} : p \in 0..(Len(fr) - 1)}

\* a stream that does not open reports 0 for every property
Unopenable == Video("video", FALSE, 0, 0, 0, <<>>, {})

GenericVideos ==
  UNION {{Video("video", TRUE, f, Len(fr), 8000, fr, b) : f \in {0, 1000}, b \in BadSets(fr)}
         : fr \in FrameSeqs}
  \cup {Video("video", TRUE, 1000, 0, 8000, fr, {}) : fr \in FrameSeqs}
  \cup {Unopenable}

\* 400 frames at 20 fps, every read succeeds
Video400 == Video("video400", TRUE, 20000, 400, 100, [i \in 1..400 |-> Dark], {})

\* 200 frames whose gray level drifts by at most 1 per frame, except that each of
\* the frames at positions 50..60 differs by 100 from the frame before it
Gray200(p) ==
  IF p < 50 THEN p
  ELSE IF p <= 60 THEN (IF p % 2 = 0 THEN 149 ELSE 49)
  ELSE 149 + ((p - 60) \div 2)
Video200 ==
  Video("video200", TRUE, 25000, 200, 100,
        [i \in 1..200 |-> [gray |-> Gray200(i - 1), desc |-> {1, 2, 3}]], {})

\* a still video of more than 30 minutes: 226 frames at 0.125 fps
LongVideo == Video("long", TRUE, 125, 226, 100, [i \in 1..226 |-> Dark], {})

\* 300 frames at 29.97 fps, every read succeeds
Video2997 == Video("video2997", TRUE, 29970, 300, 100, [i \in 1..300 |-> Dark], {})

Videos == GenericVideos \cup {Video400, Video200, LongVideo}

Caps == 0..MaxCap

work_type == "job"
TrainDir == "data/processed/images/train"
OutDir == TrainDir \o "/" \o work_type

------------------------------------------------------------------------------
\* State

NoVideo == Video("", FALSE, 0, 0, 0, <<>>, {})
NoCall ==
  [op |-> "", video |-> NoVideo, interval_seconds |-> 0, motion_threshold |-> 0,
   max_frames |-> 0, avg_motion |-> 0, motion_variance |-> 0, duration |-> 0,
   choice |-> ""]
NoResult == [raised |-> FALSE, exc |-> "", value |-> 0]
NoBatch ==
  [videos |-> <<>>, i |-> 0, target |-> 0, total_frames |-> 0, processing_log |-> <<>>,
   report |-> [written |-> FALSE]]
NoLabeler ==
  [pc |-> "idle", names |-> <<>>, activities |-> <<>>, mapping |-> <<>>, images |-> <<>>,
   i |-> 0, written_count |-> 0, unmapped |-> 0, runs |-> 0, completed |-> 0,
   interrupts |-> 0, predicted |-> <<>>, start |-> <<>>, snapshot |-> <<>>,
   report |-> [printed |-> FALSE, written_count |-> 0]]
NoMerge ==
  [pc |-> "idle", exc |-> "", names |-> [kind |-> "none", items |-> <<>>],
   dataset |-> [has_dirs |-> FALSE, image_files |-> <<>>, labels |-> <<>>],
   stream |-> <<>>, translation_map |-> <<>>, image_files |-> <<>>, i |-> 0,
   copied_count |-> 0, ignored_count |-> 0,
   report |-> [printed |-> FALSE, copied_count |-> 0, ignored_count |-> 0],
   writes |-> <<>>]

\* the configurator before a run: no answers read, neither file written
NoSetup ==
  [pc |-> "idle", exc |-> "", stream |-> <<>>, work_type |-> "", activities |-> <<>>,
   config |-> [exists |-> FALSE],
   work_config |-> [exists |-> FALSE], dataset |-> [exists |-> FALSE]]

\* the files of the Frame Store after the writes of a trace: a later write to a
\* path replaces the file an earlier one left there
ApplyWrites(files, ev) ==
  LET W == {i \in 1..Len(ev) : ev[i].type = "write"}
      paths == {ev[i].path : i \in W}
      last(p) == CHOOSE i \in W : ev[i].path = p /\ \A j \in W : ev[j].path = p => j <= i
  IN [p \in (DOMAIN files) \cup paths |->
        IF p \in paths THEN [video |-> ev[last(p)].video, pos |-> ev[last(p)].pos]
        ELSE files[p]]

\* json.dump of each extraction log to its file
ApplyLogs(files, lg) ==
  LET names == {lg[i].file : i \in 1..Len(lg)}
      last(f) == CHOOSE i \in 1..Len(lg) :
                   lg[i].file = f /\ \A j \in 1..Len(lg) : lg[j].file = f => j <= i
  IN [f \in (DOMAIN files) \cup names |->
        IF f \in names THEN lg[last(f)] ELSE files[f]]

Init ==
  /\ pc = "idle"
  /\ call = NoCall
  /\ result = NoResult
  /\ events = <<>>
  /\ fs = <<>>
  /\ logs = <<>>
  /\ batch = NoBatch
  /\ labels = <<>>
  /\ labeler = NoLabeler
  /\ merge = NoMerge
  /\ setup = NoSetup

\* a top-level call of one method: the state after it returned or raised
Finish(c, r) ==
  /\ pc' = IF r.raised THEN "raised" ELSE "done"
  /\ call' = c
  /\ result' = [raised |-> r.raised, exc |-> r.exc, value |-> r.value]
  /\ events' = r.ev
  /\ fs' = ApplyWrites(fs, r.ev)
  /\ logs' = ApplyLogs(logs, r.logs)
  /\ UNCHANGED <<batch, tools>>

Recommend ==
  /\ pc = "idle"
  /\ \E a \in {0, 499, 500, 3000, 3001, 6000}, m \in {0, 1000000, 1000001},
        d \in {0, 100, 1800, 1801, 2400} :
       Finish([NoCall EXCEPT !.op = "_recommend_strategy", !.avg_motion = a,
                             !.motion_variance = m, !.duration = d],
              Ret(_recommend_strategy(Rat(a, 1), Rat(m, 1), Rat(d, 1)), <<>>, <<>>))

Analyze ==
  /\ pc = "idle"
  /\ \E v \in Videos :
       Finish([NoCall EXCEPT !.op = "analyze_video_content", !.video = v],
              analyze_video_content(v))

TimeIntervalCalls ==
  {[NoCall EXCEPT !.op = "extract_time_intervals", !.video = v,
                  !.interval_seconds = s, !.max_frames = n]
     : v \in GenericVideos, s \in {1, 2}, n \in Caps}
  \cup {[NoCall EXCEPT !.op = "extract_time_intervals", !.video = v,
                       !.interval_seconds = 5, !.max_frames = 10]
            : v \in {Video400, Video2997}}

TimeIntervals ==
  /\ pc = "idle"
  /\ \E c \in TimeIntervalCalls :
       Finish(c, extract_time_intervals(c.video, OutDir, c.interval_seconds, c.max_frames))

MotionCalls ==
  {[NoCall EXCEPT !.op = "extract_motion_based", !.video = v,
                  !.motion_threshold = 1000, !.max_frames = n]
     : v \in GenericVideos, n \in Caps}
  \cup {[NoCall EXCEPT !.op = "extract_motion_based", !.video = Video200,
                       !.motion_threshold = 50, !.max_frames = n] : n \in {11, 12}}

MotionBased ==
  /\ pc = "idle"
  /\ \E c \in MotionCalls :
       Finish(c, extract_motion_based(c.video, OutDir, c.motion_threshold, c.max_frames))

Keyframes ==
  /\ pc = "idle"
  /\ \E v \in GenericVideos, n \in Caps :
       Finish([NoCall EXCEPT !.op = "extract_keyframes", !.video = v, !.max_frames = n],
              extract_keyframes(v, OutDir, n))

Adaptive ==
  /\ pc = "idle"
  /\ \E v \in GenericVideos, n \in Caps :
       Finish([NoCall EXCEPT !.op = "extract_adaptive", !.video = v, !.max_frames = n],
              extract_adaptive(v, OutDir, n))

------------------------------------------------------------------------------
\* Batch orchestrator

RECURSIVE GCD(_, _)
GCD(a, b) == IF b = 0 THEN a ELSE GCD(b, a % b)

Reduce(r) == LET g == GCD(r.num, r.den) IN Rat(r.num \div g, r.den \div g)
RatAdd(x, y) ==
  LET a == Reduce(x)
      b == Reduce(y)
  IN Reduce(Rat(a.num * b.den + b.num * a.den, a.den * b.den))

\* the videos a batch may find in data/raw/videos: a still video (also with a
\* frame count of 0, with a first frame that cannot be read, with an fps of 0),
\* one whose last frame differs, one whose frames alternate, one that does not
\* open and the long one
Still(fps, total_frames, bad) ==
  Video("video", TRUE, fps, total_frames, 8000, [i \in 1..MaxLen |-> Dark], bad)
LastDiffers ==
  Video("video", TRUE, 1000, MaxLen, 8000,
        [i \in 1..MaxLen |-> IF i = MaxLen THEN Bright ELSE Dark], {})
Alternating ==
  Video("video", TRUE, 1000, MaxLen, 8000,
        [i \in 1..MaxLen |-> IF i % 2 = 0 THEN Bright ELSE Dark], {})
BatchPool ==
  {Still(1000, MaxLen, {}), Still(1000, 0, {}), Still(1000, MaxLen, {0}),
   Still(0, MaxLen, {}), LastDiffers, Alternating, Unopenable, LongVideo}

BatchLists == UNION {[1..n -> BatchPool] : n \in 0..MaxVideos}
Targets == {1, MaxCap}

\* list(videos_dir.glob("*.mp4")): the files of one directory have distinct names
Named(vs) == [i \in 1..Len(vs) |-> [vs[i] EXCEPT !.name = "video" \o ToString(i)]]

\* the output directory smart_batch_process gives the extraction of a video
BatchOutputDir(video) == OutDir

Dispatch(video, analysis, target_frames_per_video) ==
  IF analysis.recommended_strategy = "time_intervals"
  THEN extract_time_intervals(video, BatchOutputDir(video), 8, target_frames_per_video)
  ELSE IF analysis.recommended_strategy = "motion_based"
  THEN extract_motion_based(video, BatchOutputDir(video), 1200, target_frames_per_video)
  ELSE IF analysis.recommended_strategy = "keyframes"
  THEN extract_keyframes(video, BatchOutputDir(video), target_frames_per_video)
  ELSE extract_adaptive(video, BatchOutputDir(video), target_frames_per_video)

\* the summary if a later entry replaced the total of its strategy
RECURSIVE ByStrategy_Overwrite(_)
ByStrategy_Overwrite(processing_log) ==
  IF processing_log = <<>> THEN <<>>
  ELSE LET rest == ByStrategy_Overwrite(SubSeq(processing_log, 1, Len(processing_log) - 1))
           log == processing_log[Len(processing_log)]
           strategy == log.strategy
       IN IF strategy \in DOMAIN rest
          THEN [rest EXCEPT ![strategy] = log.frames_extracted]
          ELSE (strategy :> log.frames_extracted) @@ rest

RECURSIVE ByStrategy(_)
ByStrategy(processing_log) ==
  IF processing_log = <<>> THEN <<>>
  ELSE LET rest == ByStrategy(SubSeq(processing_log, 1, Len(processing_log) - 1))
           log == processing_log[Len(processing_log)]
           strategy == log.strategy
       IN IF strategy \in DOMAIN rest
          THEN [rest EXCEPT ![strategy] = @ + log.frames_extracted]
          ELSE (strategy :> log.frames_extracted) @@ rest

RECURSIVE TotalDuration(_)
TotalDuration(processing_log) ==
  IF processing_log = <<>> THEN Rat(0, 1)
  ELSE RatAdd(Head(processing_log).analysis.duration_minutes,
              TotalDuration(Tail(processing_log)))

_save_processing_report(processing_log, total_frames) ==
  [written |-> TRUE,
   total_frames_extracted |-> total_frames,
   videos_processed |-> Len(processing_log),
   processing_log |-> processing_log,
   by_strategy |-> ByStrategy(processing_log),
   total_duration_minutes |-> TotalDuration(processing_log)]

\* smart_batch_process up to the loop: list the videos, return if there are none
BatchStart ==
  /\ pc = "idle"
  /\ \E vs \in BatchLists, target \in Targets :
       /\ call' = [NoCall EXCEPT !.op = "smart_batch_process", !.max_frames = target]
       /\ batch' = [NoBatch EXCEPT !.videos = Named(vs), !.i = 1, !.target = target]
       /\ pc' = IF vs = <<>> THEN "done" ELSE "batch"
  /\ UNCHANGED <<result, events, fs, logs, tools>>

\* one iteration of the loop over the videos
BatchVideo ==
  /\ pc = "batch"
  /\ batch.i <= Len(batch.videos)
  /\ LET video == batch.videos[batch.i]
         a == analyze_video_content(video)
     IN IF a.raised
        THEN /\ pc' = "raised"
             /\ result' = [raised |-> TRUE, exc |-> a.exc, value |-> 0]
             /\ events' = events \o a.ev
             /\ UNCHANGED <<fs, logs, batch>>
        ELSE IF ~a.value.ok
        THEN /\ batch' = [batch EXCEPT !.i = @ + 1]
             /\ events' = events \o a.ev
             /\ UNCHANGED <<pc, result, fs, logs>>
        ELSE LET x == Dispatch(video, a.value, batch.target)
             IN /\ events' = events \o a.ev \o x.ev
                /\ fs' = ApplyWrites(fs, x.ev)
                /\ logs' = ApplyLogs(logs, x.logs)
                /\ IF x.raised
                   THEN /\ pc' = "raised"
                        /\ result' = [raised |-> TRUE, exc |-> x.exc, value |-> 0]
                        /\ UNCHANGED batch
                   ELSE /\ batch' =
                             [batch EXCEPT
                                !.i = @ + 1,
                                !.processing_log =
                                   Append(@, [video |-> video.name,
                                              strategy |-> a.value.recommended_strategy,
                                              frames_extracted |-> x.value,
                                              analysis |-> a.value]),
                                !.total_frames = @ + x.value]
                        /\ UNCHANGED <<pc, result>>
  /\ UNCHANGED <<call, tools>>

\* after the loop: the processing report, then the total is returned
BatchReport ==
  /\ pc = "batch"
  /\ batch.i > Len(batch.videos)
  /\ batch' = [batch EXCEPT
                 !.report = _save_processing_report(batch.processing_log, batch.total_frames)]
  /\ result' = [raised |-> FALSE, exc |-> "", value |-> batch.total_frames]
  /\ pc' = "done"
  /\ UNCHANGED <<call, events, fs, logs, tools>>

------------------------------------------------------------------------------
\* Frame Store: images/train/<work_type>/*.jpg and labels/train/<work_type>/*.txt
\* (auto_etiquetador.py, merge_tool.py).  A label file is a sequence of lines,
\* a line the sequence of its whitespace-separated fields.

LabelsDir == "data/processed/labels/train/" \o work_type

ImagePath(name) == OutDir \o "/" \o name
LabelPath(stem) == LabelsDir \o "/" \o stem \o ".txt"

\* the name a merged file gets in the Frame Store
MergedName(source, name) == "merged_" \o source \o "_" \o name

\* the foreign dataset directory and the stems of its images
SourceName == "roboflow"
ForeignStems == <<"a", "b">>

\* the stems a .jpg of the images directory can have: the frames the
\* extraction strategies write and the .jpg images a merge copies
ExtractPrefixes == <<"interval_", "motion_", "keyframe_">>
FrameStems ==
  [k \in 1..(3 * (MaxCap + 1)) |->
     ExtractPrefixes[((k - 1) \div (MaxCap + 1)) + 1] \o Format06d((k - 1) % (MaxCap + 1))]
    \o [k \in 1..Len(ForeignStems) |-> MergedName(SourceName, ForeignStems[k])]

\* self.images_dir.glob("*.jpg"): the .jpg files directly in the directory
GlobJpg(files) == SelectSeq(FrameStems, LAMBDA s : ImagePath(s \o ".jpg") \in DOMAIN files)

\* label_path.exists()
Exists(files, p) == p \in DOMAIN files

\* label_path.stat().st_size
StSize(files, p) == Len(files[p])

\* open(label_path, 'w') followed by the write of the lines
WriteFile(files, p, lines) == [q \in (DOMAIN files) \cup {p} |-> IF q = p THEN lines ELSE files[q]]

\* label_path.touch(): creates an empty file, keeps the content of an existing one
Touch(files, p) == IF Exists(files, p) THEN files ELSE WriteFile(files, p, <<>>)

------------------------------------------------------------------------------
\* Pre-labeler (auto_etiquetador.py)

\* self.model.names of the pretrained detector (a part of the COCO classes)
official_names ==
  (0 :> "person") @@ (16 :> "dog") @@ (63 :> "laptop") @@ (66 :> "keyboard")

simple_map ==
  ("person" :> "persona") @@ ("laptop" :> "computadora") @@ ("keyboard" :> "teclado")
  @@ ("mouse" :> "mouse") @@ ("cell phone" :> "telefono") @@ ("book" :> "libro_documento")
  @@ ("cup" :> "taza_cafe") @@ ("tv" :> "monitor") @@ ("monitor" :> "monitor")
  @@ ("hand" :> "mano") @@ ("screen" :> "pantalla")

\* {name: id for id, name in d.items()}: a later item replaces an earlier one of
\* the same name
NameToId(d) ==
  LET names == {d[id] : id \in DOMAIN d}
  IN [name \in names |->
        CHOOSE id \in DOMAIN d : d[id] = name /\ \A j \in DOMAIN d : d[j] = name => j <= id]

\* one iteration of the loop over self.work_classes_list
MappingStep(dynamic_translation_map, my_class_name, official_name_to_id, my_name_to_id) ==
  LET matches == {official_name \in DOMAIN simple_map :
                    /\ simple_map[official_name] = my_class_name
                    /\ official_name \in DOMAIN official_name_to_id}
      put(keys) == [o \in (DOMAIN dynamic_translation_map) \cup keys |->
                      IF o \in keys THEN my_class_name ELSE dynamic_translation_map[o]]
  IN IF my_class_name \notin DOMAIN my_name_to_id THEN dynamic_translation_map
     ELSE IF matches # {} THEN put(matches)
     ELSE IF my_class_name \in DOMAIN official_name_to_id THEN put({my_class_name})
     ELSE dynamic_translation_map

RECURSIVE MappingLoop(_, _, _, _)
MappingLoop(dynamic_translation_map, work_classes_list, official_name_to_id, my_name_to_id) ==
  IF work_classes_list = <<>> THEN dynamic_translation_map
  ELSE MappingLoop(MappingStep(dynamic_translation_map, Head(work_classes_list),
                               official_name_to_id, my_name_to_id),
                   Tail(work_classes_list), official_name_to_id, my_name_to_id)

\* {official class id -> project class id}
create_dynamic_class_mapping(my_classes_map, work_classes_list) ==
  LET official_name_to_id == NameToId(official_names)
      my_name_to_id == NameToId(my_classes_map)
      dynamic_translation_map ==
        MappingLoop(<<>>, work_classes_list, official_name_to_id, my_name_to_id)
      mapped == {official_name \in DOMAIN dynamic_translation_map :
                   /\ official_name \in DOMAIN official_name_to_id
                   /\ dynamic_translation_map[official_name] \in DOMAIN my_name_to_id}
  IN [official_id \in {official_name_to_id[n] : n \in mapped} |->
        my_name_to_id[dynamic_translation_map[
          CHOOSE n \in mapped : official_name_to_id[n] = official_id]]]

\* f"{x:.6f}" of a coordinate given in units of 1e-7
Format6f(x) ==
  LET r == (x + 5) \div 10
  IN ToString(r \div 1000000) \o "." \o Format06d(r % 1000000)

\* a detection: box.cls[0] and box.xywhn[0]
Box(cls, xywhn) == [cls |-> cls, xywhn |-> xywhn]

\* what the detector finds, by the content of the image
Detections ==
  (0 :> <<Box(0, <<5000000, 5000000, 2500004, 9999996>>)>>)
  @@ (1 :> <<>>)
  @@ (2 :> <<Box(16, <<1234567, 7654321, 1000000, 2000000>>)>>)
  @@ (3 :> <<Box(63, <<3000000, 4000000, 1000001, 1000009>>),
             Box(16, <<6000000, 6000000, 500000, 500000>>),
             Box(0, <<10000000, 0, 3333333, 6666666>>)>>)

\* self.model.predict(str(img_path), verbose=False, conf=0.4), results[0].boxes:
\* a function of the image alone
predict_Unstable(img) == IF labeler.completed = 0 THEN <<>> ELSE Detections[img.pos % 4]

predict(img) == Detections[img.pos % 4]

\* the line of one detection
LabelLine(my_class_id, coords) ==
  <<ToString(my_class_id), Format6f(coords[1]), Format6f(coords[2]),
    Format6f(coords[3]), Format6f(coords[4])>>

\* lines_to_write of the detections of one image
LinesToWrite_Untranslated(boxes, mapping) ==
  [k \in 1..Len(boxes) |-> LabelLine(boxes[k].cls, boxes[k].xywhn)]

LinesToWrite(boxes, mapping) ==
  LET kept == SelectSeq(boxes, LAMBDA box : box.cls \in DOMAIN mapping)
  IN [k \in 1..Len(kept) |-> LabelLine(mapping[kept[k].cls], kept[k].xywhn)]

\* the condition on which the loop leaves an image alone
AlreadyLabeled(files, label_path) ==
  Exists(files, label_path) /\ StSize(files, label_path) > 0

\* one iteration of the loop of run_auto_label over the images: the label
\* files after it, whether the detector ran, the detections without a mapping
LabelStep(files, images, stem, mapping) ==
  LET label_path == LabelPath(stem)
      boxes == predict(images[ImagePath(stem \o ".jpg")])
      lines_to_write == LinesToWrite(boxes, mapping)
  IN IF AlreadyLabeled(files, label_path)
     THEN [files |-> files, predicted |-> FALSE, written |-> 0, lines |-> <<>>,
           unmapped |-> 0]
     ELSE [files |-> IF lines_to_write # <<>>
                     THEN WriteFile(files, label_path, lines_to_write)
                     ELSE Touch(files, label_path),
           predicted |-> TRUE,
           written |-> IF lines_to_write # <<>> THEN 1 ELSE 0,
           lines |-> lines_to_write,
           unmapped |-> Len(boxes) - Len(lines_to_write)]

\* the label files after the whole loop
RECURSIVE LabelLoop(_, _, _, _)
LabelLoop(files, images, stems, mapping) ==
  IF stems = <<>> THEN files
  ELSE LabelLoop(LabelStep(files, images, Head(stems), mapping).files, images,
                 Tail(stems), mapping)

\* the project configuration the pre-labeler loads: the names of dataset.yaml
\* and the activities of work_config.yaml
Config(names, activities) == [names |-> names, activities |-> activities]
Configs ==
  {Config((0 :> "persona") @@ (1 :> "computadora"), <<"persona", "computadora">>),
   Config((0 :> "persona") @@ (1 :> "dog"), <<"dog", "persona">>),
   Config((0 :> "teclado") @@ (1 :> "persona"), <<"persona", "gato">>)}

\* a label file a person corrected by hand
Corrected == <<<<"0", "0.500000", "0.500000", "0.100000", "0.100000">>>>

\* the images directory and the labels directory when the pre-labeler starts:
\* up to MaxImages frames, each without a label file, with an empty one or
\* with a non-empty one
StoreOf(content, label) ==
  LET n == Len(content)
      k(p) == CHOOSE j \in 1..n : p = ImagePath(FrameStems[j] \o ".jpg")
      labeled == {j \in 1..n : label[j] # "none"}
      l(p) == CHOOSE j \in labeled : p = LabelPath(FrameStems[j])
  IN [fs |-> [p \in {ImagePath(FrameStems[j] \o ".jpg") : j \in 1..n} |->
                [video |-> "video1", pos |-> content[k(p)]]],
      labels |-> [p \in {LabelPath(FrameStems[j]) : j \in labeled} |->
                    IF label[l(p)] = "empty" THEN <<>> ELSE Corrected]]

Stores ==
  UNION {{StoreOf(content, label) :
            content \in [1..n -> 0..3], label \in [1..n -> {"none", "empty", "full"}]} :
         n \in 0..MaxImages}

InitLabel ==
  /\ pc = "idle"
  /\ call = NoCall
  /\ result = NoResult
  /\ events = <<>>
  /\ logs = <<>>
  /\ batch = NoBatch
  /\ merge = NoMerge
  /\ setup = NoSetup
  /\ \E store \in Stores, config \in Configs :
       /\ fs = store.fs
       /\ labels = store.labels
       /\ labeler = [NoLabeler EXCEPT !.names = config.names,
                                      !.activities = config.activities]

\* AutoLabeler() and run_auto_label up to its loop: the mapping is built, the
\* images are listed, the run returns if there are none
LabelStart ==
  /\ labeler.pc \in {"idle", "done", "interrupted"}
  /\ labeler.runs < MaxRuns
  /\ LET images == GlobJpg(fs)
     IN labeler' =
          [labeler EXCEPT
             !.pc = IF images = <<>> THEN "done" ELSE "run",
             !.mapping = create_dynamic_class_mapping(labeler.names, labeler.activities),
             !.images = images,
             !.i = 1,
             !.written_count = 0,
             !.unmapped = 0,
             !.runs = @ + 1,
             !.start = IF labeler.runs = 0 THEN labels ELSE @,
             !.report = [printed |-> FALSE, written_count |-> 0]]
  /\ UNCHANGED <<pc, call, result, events, fs, logs, batch, labels, merge, setup>>

\* one iteration of the loop over the images
LabelImage ==
  /\ labeler.pc = "run"
  /\ labeler.i <= Len(labeler.images)
  /\ LET stem == labeler.images[labeler.i]
         r == LabelStep(labels, fs, stem, labeler.mapping)
     IN /\ labels' = r.files
        /\ labeler' =
             [labeler EXCEPT
                !.i = @ + 1,
                !.written_count = @ + r.written,
                !.unmapped = @ + r.unmapped,
                !.predicted =
                   IF r.predicted
                   THEN Append(@, [stem |-> stem, run |-> labeler.runs,
                                   existed |-> Exists(labels, LabelPath(stem))])
                   ELSE @]
  /\ UNCHANGED <<pc, call, result, events, fs, logs, batch, merge, setup>>

\* after the loop: the count of label files written is printed
LabelFinish ==
  /\ labeler.pc = "run"
  /\ labeler.i > Len(labeler.images)
  /\ labeler' =
       [labeler EXCEPT
          !.pc = "done",
          !.completed = @ + 1,
          !.snapshot = IF labeler.completed = 0 THEN labels ELSE @,
          !.report = [printed |-> TRUE, written_count |-> labeler.written_count]]
  /\ UNCHANGED <<pc, call, result, events, fs, logs, batch, labels, merge, setup>>

\* the run is interrupted between two images
LabelInterrupt ==
  /\ labeler.pc = "run"
  /\ labeler' = [labeler EXCEPT !.pc = "interrupted", !.interrupts = @ + 1]
  /\ UNCHANGED <<pc, call, result, events, fs, logs, batch, labels, merge, setup>>

\* the run is interrupted while the label file of an image is written: the
\* detector ran, the file was opened for writing, some of the lines reached it
LabelInterruptedWrite ==
  /\ labeler.pc = "run"
  /\ labeler.i <= Len(labeler.images)
  /\ LET stem == labeler.images[labeler.i]
         r == LabelStep(labels, fs, stem, labeler.mapping)
     IN /\ r.lines # <<>>
        /\ \E n \in 0..(Len(r.lines) - 1) :
             labels' = WriteFile(labels, LabelPath(stem), SubSeq(r.lines, 1, n))
        /\ labeler' =
             [labeler EXCEPT
                !.pc = "interrupted",
                !.interrupts = @ + 1,
                !.predicted = Append(@, [stem |-> stem, run |-> labeler.runs,
                                          existed |-> Exists(labels, LabelPath(stem))])]
  /\ UNCHANGED <<pc, call, result, events, fs, logs, batch, merge, setup>>

------------------------------------------------------------------------------
\* Dataset merge tool (merge_tool.py)

\* a key of a YAML mapping: an integer or a string
PyInt(n) == [t |-> "int", n |-> n, s |-> ""]
PyStr(s) == [t |-> "str", n |-> 0, s |-> s]

\* str(x)
str_Identity(x) == x

str(x) == IF x.t = "int" THEN PyStr(ToString(x.n)) ELSE x

\* input(...).strip().lower() of what the user may type
StripLower(raw) == IF raw = " Persona " THEN "persona" ELSE raw

\* MAIN_CLASSES_MAP: project class name -> its ID as a string
MAIN_CLASSES_MAP(names) ==
  [name \in DOMAIN NameToId(names) |-> ToString(NameToId(names)[name])]

\* load_new_dataset_config: the classes as an ordered mapping of pairs
\* <<ID, name>>, and the train path
load_new_dataset_config(yaml) ==
  IF ~yaml.exists THEN [ok |-> FALSE, new_classes_map |-> <<>>, train |-> ""]
  ELSE IF yaml.names.kind = "list"
  THEN [ok |-> TRUE,
        new_classes_map |-> [k \in 1..Len(yaml.names.items) |->
                               <<PyStr(ToString(k - 1)), yaml.names.items[k]>>],
        train |-> yaml.train]
  ELSE IF yaml.names.kind = "dict"
  THEN [ok |-> TRUE, new_classes_map |-> yaml.names.items, train |-> yaml.train]
  ELSE [ok |-> FALSE, new_classes_map |-> <<>>, train |-> ""]

\* the while loop of get_interactive_mapping for one class: inputs are read
\* until one is 'ignorar' or a project class name
RECURSIVE ReadAction(_, _)
ReadAction(stream, main_classes_map) ==
  IF stream = <<>> THEN [raised |-> TRUE, target |-> "", rest |-> <<>>]
  ELSE LET action == StripLower(Head(stream))
       IN IF action = "ignorar"
          THEN [raised |-> FALSE, target |-> "ignorar", rest |-> Tail(stream)]
          ELSE IF action \in DOMAIN main_classes_map
          THEN [raised |-> FALSE, target |-> main_classes_map[action],
                rest |-> Tail(stream)]
          ELSE ReadAction(Tail(stream), main_classes_map)

\* get_interactive_mapping: foreign ID (string) -> project ID (string) or 'ignorar'
RECURSIVE get_interactive_mapping(_, _, _, _)
get_interactive_mapping(new_classes_map, stream, main_classes_map, translation_map) ==
  IF new_classes_map = <<>>
  THEN [raised |-> FALSE, translation_map |-> translation_map]
  ELSE LET new_id_str == str(Head(new_classes_map)[1])
           a == ReadAction(stream, main_classes_map)
       IN IF a.raised THEN [raised |-> TRUE, translation_map |-> translation_map]
          ELSE get_interactive_mapping(
                 Tail(new_classes_map), a.rest, main_classes_map,
                 [k \in (DOMAIN translation_map) \cup {new_id_str} |->
                    IF k = new_id_str THEN a.target ELSE translation_map[k]])

\* the translation of one line of a foreign label file: whether a line is
\* added to new_label_lines, and the line
TranslateLine_KeepIgnored(parts, translation_map) ==
  IF parts = <<>> THEN [keep |-> FALSE, line |-> <<>>]
  ELSE IF PyStr(parts[1]) \in DOMAIN translation_map
  THEN [keep |-> TRUE, line |-> <<translation_map[PyStr(parts[1])]>> \o Tail(parts)]
  ELSE [keep |-> FALSE, line |-> <<>>]

TranslateLine(parts, translation_map) ==
  IF parts = <<>> THEN [keep |-> FALSE, line |-> <<>>]
  ELSE LET old_id == PyStr(parts[1])
       IN IF old_id \in DOMAIN translation_map
          THEN LET new_id == translation_map[old_id]
               IN IF new_id = "ignorar" THEN [keep |-> FALSE, line |-> <<>>]
                  ELSE [keep |-> TRUE, line |-> <<new_id>> \o Tail(parts)]
          ELSE [keep |-> FALSE, line |-> <<>>]

\* new_label_lines of one foreign label file
RECURSIVE NewLabelLines(_, _)
NewLabelLines(lines, translation_map) ==
  IF lines = <<>> THEN <<>>
  ELSE LET t == TranslateLine(Head(lines), translation_map)
       IN (IF t.keep THEN <<t.line>> ELSE <<>>)
            \o NewLabelLines(Tail(lines), translation_map)

\* a foreign image file img_path: .stem and .name
ImageFile(stem, suffix) == [stem |-> stem, name |-> stem \o suffix]

dest_img_name(img_path) == MergedName(SourceName, img_path.name)
dest_label_name(img_path) == MergedName(SourceName, img_path.stem) \o ".txt"

\* shutil.copy(img_path, DEST_IMAGES_DIR / dest_img_name)
CopyImage(files, img_path) ==
  LET dest == ImagePath(dest_img_name(img_path))
  IN [p \in (DOMAIN files) \cup {dest} |->
        IF p = dest THEN [video |-> SourceName \o "/" \o img_path.name, pos |-> 0]
        ELSE files[p]]

\* the foreign datasets: data.yaml, the images/ and labels/ directories
Line(id) == <<id, "0.5", "0.25", "0.1", "0.2">>
Blank == <<>>

Yaml(kind, items, train) ==
  [exists |-> TRUE, names |-> [kind |-> kind, items |-> items], train |-> train]

NamesForms ==
  {[kind |-> "list", items |-> <<"keyboard", "mouse">>],
   [kind |-> "list", items |-> <<"persona", "mouse">>],
   [kind |-> "dict", items |-> <<<<PyInt(0), "keyboard">>, <<PyInt(1), "mouse">>>>],
   [kind |-> "dict", items |-> <<<<PyStr("0"), "keyboard">>, <<PyStr("1"), "mouse">>>>],
   [kind |-> "none", items |-> <<>>]}

Dataset(has_dirs, image_files, label_files) ==
  [has_dirs |-> has_dirs, image_files |-> image_files, labels |-> label_files]

ForeignDatasets ==
  {Dataset(TRUE, <<ImageFile("a", ".jpg")>>, ("a" :> <<Line("0"), Line("1")>>)),
   Dataset(TRUE, <<ImageFile("a", ".jpg"), ImageFile("b", ".jpg")>>,
           ("a" :> <<Line("2"), Blank, Line("0"), Line("1")>>) @@ ("b" :> <<Line("1")>>)),
   Dataset(TRUE, <<ImageFile("a", ".jpg"), ImageFile("b", ".jpg")>>,
           ("b" :> <<Line("0"), Line("0"), Line("1")>>)),
   Dataset(TRUE, <<ImageFile("a", ".jpg"), ImageFile("a", ".png")>>,
           ("a" :> <<Line("1"), Line("0")>>)),
   Dataset(TRUE, <<ImageFile("b", ".jpg")>>, ("b" :> <<>>)),
   Dataset(TRUE, <<>>, <<>>),
   Dataset(FALSE, <<>>, <<>>)}

\* what the user types at the prompts, in order
Streams ==
  {<<"ignorar", "ignorar">>, <<" Persona ", "ignorar">>, <<"ignorar", " Persona ">>,
   <<"teclado", " Persona ">>, <<"gato", " Persona ", "teclado", "ignorar">>}

\* the Frame Store when the merge starts
InitStores ==
  {StoreOf(<<>>, <<>>), StoreOf(<<3, 0>>, <<"none", "full">>)}

InitMerge ==
  /\ pc = "idle"
  /\ call = NoCall
  /\ result = NoResult
  /\ events = <<>>
  /\ logs = <<>>
  /\ batch = NoBatch
  /\ merge = NoMerge
  /\ setup = NoSetup
  /\ \E store \in InitStores, config \in Configs :
       /\ fs = store.fs
       /\ labels = store.labels
       /\ labeler = [NoLabeler EXCEPT !.names = config.names,
                                      !.activities = config.activities]

\* main up to the loop of process_and_copy: data.yaml is loaded, the user maps
\* the classes, the images of the foreign dataset are listed
MergeStart ==
  /\ merge.pc = "idle"
  /\ labeler.pc = "idle"
  /\ \E names \in NamesForms, dataset \in ForeignDatasets, stream \in Streams :
       LET config == load_new_dataset_config(Yaml(names.kind, names.items, "train"))
           m == get_interactive_mapping(config.new_classes_map, stream,
                                        MAIN_CLASSES_MAP(labeler.names), <<>>)
           started == [merge EXCEPT !.names = names, !.dataset = dataset,
                                    !.stream = stream]
       IN merge' =
            IF ~config.ok THEN [started EXCEPT !.pc = "done"]
            ELSE IF m.raised THEN [started EXCEPT !.pc = "raised", !.exc = "EOFError"]
            ELSE IF ~dataset.has_dirs
            THEN [started EXCEPT !.pc = "done", !.translation_map = m.translation_map]
            ELSE [started EXCEPT !.pc = "merge", !.translation_map = m.translation_map,
                                 !.image_files = dataset.image_files, !.i = 1]
  /\ UNCHANGED <<pc, call, result, events, fs, logs, batch, labels, labeler, setup>>

\* one iteration of the loop over the foreign images; the copy of the image
\* or the write of the label file may fail
MergeImage ==
  /\ merge.pc = "merge"
  /\ merge.i <= Len(merge.image_files)
  /\ LET img_path == merge.image_files[merge.i]
         dest_img == ImagePath(dest_img_name(img_path))
         dest_label == LabelsDir \o "/" \o dest_label_name(img_path)
         has_label == img_path.stem \in DOMAIN merge.dataset.labels
         new_label_lines ==
           IF has_label
           THEN NewLabelLines(merge.dataset.labels[img_path.stem], merge.translation_map)
           ELSE <<>>
         wrote(p, files) == [path |-> p, existed |-> Exists(files, p), i |-> merge.i]
     IN IF ~has_label
        THEN /\ merge' = [merge EXCEPT !.i = @ + 1]
             /\ UNCHANGED <<fs, labels>>
        ELSE IF new_label_lines = <<>>
        THEN /\ merge' = [merge EXCEPT !.i = @ + 1, !.ignored_count = @ + 1]
             /\ UNCHANGED <<fs, labels>>
        ELSE \E io \in {"ok", "copy fails", "write fails"} :
               IF io = "copy fails"
               THEN /\ merge' = [merge EXCEPT !.pc = "raised", !.exc = "OSError"]
                    /\ UNCHANGED <<fs, labels>>
               ELSE IF io = "write fails"
               THEN /\ fs' = CopyImage(fs, img_path)
                    /\ merge' = [merge EXCEPT !.pc = "raised", !.exc = "OSError",
                                              !.writes = Append(@, wrote(dest_img, fs))]
                    /\ UNCHANGED labels
               ELSE /\ fs' = CopyImage(fs, img_path)
                    /\ labels' = WriteFile(labels, dest_label, new_label_lines)
                    /\ merge' = [merge EXCEPT
                                   !.i = @ + 1,
                                   !.copied_count = @ + 1,
                                   !.writes = Append(Append(@, wrote(dest_img, fs)),
                                                     wrote(dest_label, labels))]
  /\ UNCHANGED <<pc, call, result, events, logs, batch, labeler, setup>>

\* after the loop: the counts are printed
MergeReport ==
  /\ merge.pc = "merge"
  /\ merge.i > Len(merge.image_files)
  /\ merge' = [merge EXCEPT
                 !.pc = "done",
                 !.report = [printed |-> TRUE, copied_count |-> merge.copied_count,
                             ignored_count |-> merge.ignored_count]]
  /\ UNCHANGED <<pc, call, result, events, fs, logs, batch, labels, labeler, setup>>

\* the pre-labeler run after a merge
LabelAfterMerge ==
  /\ merge.pc \in {"done", "raised"}
  /\ LabelStart

------------------------------------------------------------------------------
\* Specifications

------------------------------------------------------------------------------
\* Configurator (setup_work.py): the answers typed at its prompts are a
\* sequence of strings, read in order; reading past its end raises EOFError

\* int(s) of the numerals the answers use; any other string raises ValueError
int(s) ==
  LET numerals == ("4" :> 4) @@ ("5" :> 5) @@ ("8" :> 8) @@ ("50" :> 50) @@ ("100" :> 100)
                  @@ ("400" :> 400) @@ ("416" :> 416) @@ ("500" :> 500) @@ ("640" :> 640)
  IN IF s \in DOMAIN numerals THEN [raised |-> FALSE, n |-> numerals[s]]
     ELSE [raised |-> TRUE, n |-> 0]

\* the test of line 38 if every non-empty answer were taken as a new class
IsNewClass_AnyName(activity, activities) == activity # ""

\* activity and activity not in activities
IsNewClass(activity, activities) ==
  activity # "" /\ \A k \in DOMAIN activities : activities[k] # activity

\* the loop that reads the class names, from the answers left in stream
RECURSIVE ClassLoop(_, _)
ClassLoop(stream, activities) ==
  IF stream = <<>> THEN [raised |-> TRUE, activities |-> activities, rest |-> <<>>]
  ELSE LET activity == StripLower(Head(stream))
       IN IF activity = "fin"
          THEN [raised |-> FALSE, activities |-> activities, rest |-> Tail(stream)]
          ELSE IF IsNewClass(activity, activities)
          THEN ClassLoop(Tail(stream), Append(activities, activity))
          ELSE IF activity = ""
          THEN [raised |-> FALSE, activities |-> activities, rest |-> Tail(stream)]
          ELSE ClassLoop(Tail(stream), activities)

\* {str(idx): activity for idx, activity in enumerate(activities)}
Enumerate(activities) ==
  [key \in {ToString(idx - 1) : idx \in DOMAIN activities} |->
     activities[CHOOSE idx \in DOMAIN activities : ToString(idx - 1) = key]]

\* interactive_setup up to the configuration it is about to save
interactive_setup(stream) ==
  LET failed(exc) == [raised |-> TRUE, exc |-> exc, work_type |-> "",
                      activities |-> <<>>, config |-> [exists |-> FALSE]]
  IN IF stream = <<>> THEN failed("EOFError")
     ELSE
       LET typed == StripLower(Head(stream))
           work_type_ == IF typed = "" THEN "default_job" ELSE typed
           classes == ClassLoop(Tail(stream), <<"persona">>)
           rest == classes.rest
           answer(k, default) == IF StripLower(rest[k]) = "" THEN default
                                 ELSE StripLower(rest[k])
           mp_modules_to_load ==
             IF rest[1] = "1,3" THEN <<"hands", "face_mesh">> ELSE <<"hands", "pose">>
           epochs == int(answer(3, "100"))
           batch_size == int(answer(4, "4"))
           image_size == int(answer(5, "416"))
       IN IF classes.raised \/ Len(rest) < 3 THEN failed("EOFError")
          ELSE IF epochs.raised THEN failed("ValueError")
          ELSE IF Len(rest) < 4 THEN failed("EOFError")
          ELSE IF batch_size.raised THEN failed("ValueError")
          ELSE IF Len(rest) < 5 THEN failed("EOFError")
          ELSE IF image_size.raised THEN failed("ValueError")
          ELSE [raised |-> FALSE, exc |-> "", work_type |-> work_type_,
                activities |-> classes.activities,
                config |->
                  [exists |-> TRUE,
                   project_name |-> "analisis_" \o work_type_,
                   work_type |-> work_type_,
                   activities |-> Enumerate(classes.activities),
                   mediapipe_modules |-> mp_modules_to_load,
                   training |->
                     [base_model |-> "yolov8" \o answer(2, "n") \o ".pt",
                      epochs |-> epochs.n, batch_size |-> batch_size.n,
                      image_size |-> image_size.n, patience |-> 20]]]

\* the dataset.yaml generate_dataset_config writes
generate_dataset_config(activities, work_type_) ==
  [exists |-> TRUE,
   train |-> "images/train/" \o work_type_,
   val |-> "images/train/" \o work_type_,
   nc |-> Len(activities),
   names |-> Enumerate(activities)]

\* what the user types: the work type, the class names up to 'fin' or an empty
\* answer, the MediaPipe modules, the model size and the three training numbers
SetupStreams ==
  {<<w>> \o c \o t :
     w \in {"", "job"},
     c \in {<<"fin">>, <<"">>, <<"teclado", "fin">>, <<"persona", "fin">>,
            <<"teclado", "teclado", "mouse", "fin">>,
            <<" Persona ", "teclado", "">>,
            <<"mouse", "teclado", " Persona ", "mouse", "fin">>,
            <<"teclado", "mouse">>},
     t \in {<<"", "", "", "", "">>, <<"1,3", "s", "50", "8", "640">>,
            <<"", "", "abc", "", "">>, <<"", "n", "100">>}}

\* the configurator is run in a project without configuration files, or with
\* those an earlier run wrote
InitSetup ==
  /\ pc = "idle"
  /\ call = NoCall
  /\ result = NoResult
  /\ events = <<>>
  /\ fs = <<>>
  /\ logs = <<>>
  /\ batch = NoBatch
  /\ labels = <<>>
  /\ labeler = NoLabeler
  /\ merge = NoMerge
  /\ \E earlier \in {<<>>, <<"", "gato", "fin", "", "", "", "", "">>} :
       setup = IF earlier = <<>> THEN NoSetup
               ELSE [NoSetup EXCEPT
                       !.work_config = interactive_setup(earlier).config,
                       !.dataset = generate_dataset_config(
                                     interactive_setup(earlier).activities,
                                     interactive_setup(earlier).work_type)]

\* interactive_setup reads the answers and builds the configuration
SetupStart ==
  /\ setup.pc = "idle"
  /\ \E stream \in SetupStreams :
       LET r == interactive_setup(stream)
       IN setup' = [setup EXCEPT !.pc = IF r.raised THEN "raised" ELSE "save",
                                 !.exc = r.exc, !.stream = stream,
                                 !.work_type = r.work_type,
                                 !.activities = r.activities, !.config = r.config]
  /\ UNCHANGED <<pc, call, result, events, fs, logs, batch, labels, labeler, merge>>

\* save_config(config): work_config.yaml is written
SetupSaveConfig ==
  /\ setup.pc = "save"
  /\ setup' = [setup EXCEPT !.pc = "dataset", !.work_config = setup.config]
  /\ UNCHANGED <<pc, call, result, events, fs, logs, batch, labels, labeler, merge>>

\* generate_dataset_config(activities, work_type): dataset.yaml is written
SetupDatasetConfig ==
  /\ setup.pc = "dataset"
  /\ setup' = [setup EXCEPT
                 !.pc = "done",
                 !.dataset = generate_dataset_config(setup.activities, setup.work_type)]
  /\ UNCHANGED <<pc, call, result, events, fs, logs, batch, labels, labeler, merge>>

------------------------------------------------------------------------------
\* Menu of the video processor (main of advanced_video_processor.py), run in a
\* configured project

\* video_analysis_<time>.json, or no file when there are no analyses
_generate_analysis_report(analyses) ==
  IF analyses = <<>> THEN [written |-> FALSE]
  ELSE [written |-> TRUE,
        total_videos_analyzed |-> Len(analyses),
        videos |-> analyses,
        content_types |->
          [t \in {analyses[i].content_type : i \in DOMAIN analyses} |->
             Cardinality({i \in DOMAIN analyses : analyses[i].content_type = t})],
        total_duration_minutes |->
          TotalDuration([i \in DOMAIN analyses |-> [analysis |-> analyses[i]]])]

\* the loop of batch_analyze_videos over the videos left
RECURSIVE AnalyzeAll(_, _, _)
AnalyzeAll(videos, analyses, ev) ==
  IF videos = <<>> THEN Ret(analyses, ev, <<>>)
  ELSE LET analysis == analyze_video_content(Head(videos))
       IN IF analysis.raised THEN Raise(analysis.exc, ev \o analysis.ev, <<>>)
          ELSE AnalyzeAll(Tail(videos),
                          IF analysis.value.ok THEN Append(analyses, analysis.value)
                          ELSE analyses,
                          ev \o analysis.ev)

\* batch_analyze_videos: the analyses and the report, or None without videos
batch_analyze_videos(videos) ==
  IF videos = <<>> THEN Ret(None, <<>>, <<>>)
  ELSE LET r == AnalyzeAll(videos, <<>>, <<>>)
       IN IF r.raised THEN r
          ELSE Ret([ok |-> TRUE, analyses |-> r.value,
                    report |-> _generate_analysis_report(r.value)], r.ev, <<>>)

\* main for every choice but "2": answers are what is typed at the prompts of
\* choice "3".  AdvancedVideoProcessor has no batch_process_with_strategy.
main(choice, answers, videos) ==
  IF choice = "1" THEN batch_analyze_videos(videos)
  ELSE IF choice = "3"
  THEN LET interval == int(IF answers[1] = "" THEN "5" ELSE answers[1])
           max_frames == int(IF answers[2] = "" THEN "400" ELSE answers[2])
       IN IF interval.raised \/ max_frames.raised THEN Raise("ValueError", <<>>, <<>>)
          ELSE Raise("AttributeError", <<>>, <<>>)
  ELSE IF choice \in {"4", "5", "6"} THEN Raise("AttributeError", <<>>, <<>>)
  ELSE Ret(None, <<>>, <<>>)

\* one run of the menu with a choice other than "2"
Main ==
  /\ pc = "idle"
  /\ \E choice \in {"1", "3", "4", "5", "6", "7", ""}, vs \in BatchLists,
        answers \in {<<"", "">>, <<"5", "400">>, <<"abc", "">>, <<"5", "abc">>} :
       /\ choice # "1" => vs = <<>>
       /\ choice # "3" => answers = <<"", "">>
       /\ LET r == main(choice, answers, Named(vs))
          IN /\ pc' = IF r.raised THEN "raised" ELSE "done"
             /\ call' = [NoCall EXCEPT !.op = "main", !.choice = choice]
             /\ result' = [raised |-> r.raised, exc |-> r.exc, value |-> r.value]
             /\ events' = r.ev
             /\ batch' = [NoBatch EXCEPT !.videos = Named(vs)]
  /\ UNCHANGED <<fs, logs, tools>>

\* one call of the selector, of the analyzer or of an extraction strategy
Next ==
  \/ Recommend
  \/ Analyze
  \/ Keyframes
  \/ TimeIntervals
  \/ MotionBased
  \/ Adaptive

Spec == Init /\ [][Next]_vars

\* one run of smart_batch_process
NextBatch ==
  \/ BatchStart
  \/ BatchVideo
  \/ BatchReport

SpecBatch == Init /\ [][NextBatch]_vars

\* runs of the pre-labeler over a Frame Store, interrupted or not
NextLabel ==
  \/ LabelStart
  \/ LabelImage
  \/ LabelFinish
  \/ LabelInterrupt
  \/ LabelInterruptedWrite

SpecLabel == InitLabel /\ [][NextLabel]_vars

\* the pre-labeler run on the Frame Store a run of smart_batch_process left
InitPipeline ==
  /\ pc = "idle"
  /\ call = NoCall
  /\ result = NoResult
  /\ events = <<>>
  /\ fs = <<>>
  /\ logs = <<>>
  /\ batch = NoBatch
  /\ labels = <<>>
  /\ merge = NoMerge
  /\ setup = NoSetup
  /\ \E config \in Configs :
       labeler = [NoLabeler EXCEPT !.names = config.names,
                                   !.activities = config.activities]

LabelAfterBatch ==
  /\ pc \in {"done", "raised"}
  /\ LabelStart

NextPipeline ==
  \/ BatchStart
  \/ BatchVideo
  \/ BatchReport
  \/ LabelAfterBatch
  \/ LabelImage
  \/ LabelFinish

SpecPipeline == InitPipeline /\ [][NextPipeline]_vars

\* one merge of a foreign dataset into the Frame Store, then the pre-labeler
NextMerge ==
  \/ MergeStart
  \/ MergeImage
  \/ MergeReport
  \/ LabelAfterMerge
  \/ LabelImage
  \/ LabelFinish

SpecMerge == InitMerge /\ [][NextMerge]_vars

\* one run of the configurator
NextSetup ==
  \/ SetupStart
  \/ SetupSaveConfig
  \/ SetupDatasetConfig

SpecSetup == InitSetup /\ [][NextSetup]_vars

\* one run of the menu of the video processor: choice "2" is BatchStart, which
\* takes the target typed at its prompt, and the run of smart_batch_process
NextMenu ==
  \/ Main
  \/ BatchStart
  \/ BatchVideo
  \/ BatchReport

SpecMenu == Init /\ [][NextMenu]_vars

------------------------------------------------------------------------------
\* Properties

Returned == pc = "done"
Ended == pc \in {"done", "raised"}

SingleStrategyOps == {"extract_time_intervals", "extract_motion_based", "extract_keyframes"}
ExtractOps == SingleStrategyOps \cup {"extract_adaptive"}

IsWrite(e) == e.type = "write"
Writes(ev) == {i \in 1..Len(ev) : ev[i].type = "write"}
WritesBefore(ev, i) == Cardinality({j \in Writes(ev) : j < i})
FailedReads(ev) == {i \in 1..Len(ev) : ev[i].type = "read" /\ ~ev[i].ok}
\* the failed reads that follow a read that succeeded
MidStreamFailures(ev) ==
  {i \in FailedReads(ev) : \E j \in 1..(i - 1) : ev[j].type = "read" /\ ev[j].ok}
\* the source positions of the frames written, in the order of the writes
WrittenPositions(ev) ==
  LET w == SelectSeq(ev, IsWrite) IN [i \in 1..Len(w) |-> w[i].pos]
\* capture handles opened and not released
OpenHandles(ev) ==
  Cardinality({i \in 1..Len(ev) : ev[i].type = "open" /\ ev[i].ok})
  - Cardinality({i \in 1..Len(ev) : ev[i].type = "release"})

\* C1: _recommend_strategy returns time_intervals whenever duration > 1800, else
\* motion_based when avg_motion > 3000 and motion_variance > 1000000, else
\* keyframes when avg_motion < 500, else adaptive.
C1_SelectorRules ==
  (Returned /\ call.op = "_recommend_strategy") =>
    LET a == call.avg_motion
        m == call.motion_variance
        d == call.duration
        r == result.value
    IN /\ d > 1800 => r = "time_intervals"
       /\ (d <= 1800 /\ a > 3000 /\ m > 1000000) => r = "motion_based"
       /\ (d <= 1800 /\ ~(a > 3000 /\ m > 1000000) /\ a < 500) => r = "keyframes"
       /\ (d <= 1800 /\ ~(a > 3000 /\ m > 1000000) /\ a >= 500) => r = "adaptive"

\* a 2400 s video with high motion statistics was given time_intervals
C1_Witness ==
  /\ Returned /\ call.op = "_recommend_strategy"
  /\ call.duration = 2400 /\ call.avg_motion = 6000 /\ call.motion_variance = 1000001
  /\ result.value = "time_intervals"

\* C2: every call of an extraction strategy with max_frames = N >= 0 returns a
\* count <= N and has written at most N image files.
C2_CapRespected ==
  (Ended /\ call.op \in ExtractOps) =>
    /\ ~result.raised
    /\ result.value <= call.max_frames
    /\ Cardinality(Writes(events)) <= call.max_frames

\* C3: every capture handle opened by analyze_video_content or by a single
\* extraction strategy is released when the function returns.
C3_HandlesReleased ==
  (Returned /\ call.op \in SingleStrategyOps \cup {"analyze_video_content"}) =>
    OpenHandles(events) = 0

\* C4: in a batch run no frame file written for one video is replaced by a
\* frame file written for a later video.
C4_NoOverwrite ==
  [][\A p \in DOMAIN fs : fs'[p].video = fs[p].video]_vars

\* C5: in a batch run the failure of one video does not stop the run: every
\* video of the list is reached, the report is written, and the log and the
\* total hold exactly the videos that were extracted.
C5_FailureIsolated ==
  (Ended /\ call.op = "smart_batch_process" /\ batch.videos # <<>>) =>
    /\ batch.i = Len(batch.videos) + 1
    /\ batch.report.written
    /\ batch.report.total_frames_extracted =
         SumSeq([k \in 1..Len(batch.processing_log) |->
                   batch.processing_log[k].frames_extracted])

\* C6: analyze_video_content returns a complete VideoAnalysis or None for every
\* video and never raises.
C6_AnalyzeNeverRaises ==
  (Ended /\ call.op = "analyze_video_content") =>
    /\ ~result.raised
    /\ \/ result.value = None
       \/ DOMAIN result.value =
            {"ok", "filename", "duration_minutes", "total_frames", "fps", "resolution",
             "avg_motion", "motion_variance", "avg_brightness", "content_type",
             "recommended_strategy"}

\* C7: a strategy called on a stream that cannot be opened returns 0 without
\* raising and writes no image file.
C7_UnopenableReturnsZero ==
  (Ended /\ call.op \in ExtractOps /\ ~call.video.openable) =>
    /\ ~result.raised
    /\ result.value = 0
    /\ Writes(events) = {}
    /\ DOMAIN fs = {}

\* the adaptive strategy returned 0 for a stream that does not open
C7_Witness ==
  /\ Returned /\ call.op = "extract_adaptive" /\ ~call.video.openable
  /\ result.value = 0

\* C8 as claimed: in time-interval, motion-based and keyframe extraction nothing
\* is read or written after a failed read, and the count returned is the
\* number of frames written before it.
C8_ReadFailureEndsExtraction ==
  (Returned /\ call.op \in SingleStrategyOps) =>
    \A i \in MidStreamFailures(events) :
      /\ \A j \in (i + 1)..Len(events) : events[j].type \notin {"read", "write"}
      /\ result.value = WritesBefore(events, i)

\* the distance between two candidate positions of a time-interval or keyframe call
Stride(c) ==
  IF c.op = "extract_time_intervals"
  THEN FramesPerInterval(c.video.fps, c.interval_seconds)
  ELSE Max(1, c.video.total_frames \div c.max_frames)

\* C8 amended: a failed read ends motion-based extraction, with the count of the
\* frames written before it; in time-interval and keyframe extraction it only
\* skips that candidate: the next candidate below the frame count is still
\* read, and the count returned is the number of all frames written.
C8_ReadFailure ==
  Returned =>
    /\ call.op = "extract_motion_based" =>
         \A i \in FailedReads(events) :
           /\ \A j \in (i + 1)..Len(events) : events[j].type \notin {"read", "write"}
           /\ result.value = WritesBefore(events, i)
    /\ call.op \in {"extract_time_intervals", "extract_keyframes"} =>
         /\ result.value = Cardinality(Writes(events))
         /\ \A i \in FailedReads(events) :
              LET next == events[i].pos + Stride(call)
              IN next < call.video.total_frames =>
                   /\ events[i + 1].type = "read"
                   /\ events[i + 1].pos = next

\* a time-interval call wrote a frame after a read had failed
C8_Witness ==
  /\ Returned /\ call.op = "extract_time_intervals"
  /\ \E i \in MidStreamFailures(events) : \E j \in Writes(events) : j > i

\* time-interval extraction with fps = 20, interval_seconds = 5, max_frames = 10
\* on a 400-frame video whose reads all succeed
Scenario400 ==
  /\ call.op = "extract_time_intervals"
  /\ call.video.openable /\ call.video.fps = 20000
  /\ call.video.total_frames = 400 /\ Len(call.video.frames) = 400
  /\ call.video.bad = {}
  /\ call.interval_seconds = 5 /\ call.max_frames = 10

\* C9 as claimed: the call writes exactly 10 frames, from positions 0, 100, ..., 900.
C9_TenFrames ==
  (Returned /\ Scenario400) =>
    /\ result.value = 10
    /\ WrittenPositions(events) = [i \in 1..10 |-> 100 * (i - 1)]

\* C9 amended: the call writes exactly 4 frames, from the positions 0, 100, 200
\* and 300 below the frame count; the cap of 10 is not reached.
C9_FourFrames ==
  (Returned /\ Scenario400) =>
    /\ result.value = 4
    /\ WrittenPositions(events) = <<0, 100, 200, 300>>

C9_Witness == Returned /\ Scenario400 /\ result.value = 4

\* the positions of a video whose thresholded difference against the frame
\* before exceeds the motion threshold
MovingPositions(v, motion_threshold) ==
  {p \in 1..(Len(v.frames) - 1) :
     ThreshCount(v, FrameAt(v, p - 1).gray, FrameAt(v, p).gray) > motion_threshold}

\* C10: on a 200-frame video in which exactly the positions 50..60 move against
\* the frame before them, motion-based extraction with max_frames >= 11 writes
\* exactly the frames of those 11 positions, in ascending order.
C10_MotionFrames ==
  (/\ Returned /\ call.op = "extract_motion_based"
   /\ call.video.openable /\ call.video.bad = {} /\ Len(call.video.frames) = 200
   /\ MovingPositions(call.video, call.motion_threshold) = 50..60
   /\ call.max_frames >= 11) =>
    /\ result.value = 11
    /\ WrittenPositions(events) = [i \in 1..11 |-> 49 + i]
    /\ \A k \in 0..10 :
         fs[OutDir \o "/motion_" \o Format06d(k) \o ".jpg"].pos = 50 + k

C10_Witness ==
  /\ Returned /\ call.op = "extract_motion_based"
  /\ Len(call.video.frames) = 200
  /\ MovingPositions(call.video, call.motion_threshold) = 50..60
  /\ call.max_frames = 11
  /\ result.value = 11

------------------------------------------------------------------------------
\* Properties of the pre-labeler

\* the label files one uninterrupted run leaves, started where the first run started
UninterruptedRun == LabelLoop(labeler.start, fs, GlobJpg(fs), labeler.mapping)

C13_ExistingLabelIsTerminal ==
  [][(/\ labeler.pc = "run"
      /\ labeler.i <= Len(labeler.images)
      /\ Exists(labels, LabelPath(labeler.images[labeler.i])))
     => (labeler'.predicted = labeler.predicted /\ labels' = labels)]_vars

\* C14: a run interrupted at any point and then run again to completion
\* leaves the label files one uninterrupted run leaves.
C14_ResumeEqualsUninterrupted ==
  (labeler.pc = "done" /\ labeler.completed = 1 /\ labeler.interrupts >= 1)
    => labels = UninterruptedRun

\* the directories below the images directory that extraction writes into
FrameDirs == <<"", "/time_based", "/motion_based", "/keyframes">>

\* the label file of an image of the Frame Store: the file of the same stem at
\* the same place below the labels directory
LabelFileOf(p) ==
  LET at == CHOOSE x \in (1..Len(FrameDirs)) \X (1..Len(FrameStems)) :
              p = OutDir \o FrameDirs[x[1]] \o "/" \o FrameStems[x[2]] \o ".jpg"
  IN LabelsDir \o FrameDirs[at[1]] \o "/" \o FrameStems[at[2]] \o ".txt"

\* C15: after smart_batch_process and then run_auto_label for the same work
\* type, every frame the batch wrote into the Frame Store has a label file.
C15_EveryFrameLabeled ==
  (/\ pc = "done" /\ call.op = "smart_batch_process"
   /\ labeler.pc = "done" /\ labeler.runs >= 1)
    => \A p \in DOMAIN fs : Exists(labels, LabelFileOf(p))

------------------------------------------------------------------------------
\* Properties of the merge tool

\* the merge ran to its end and printed its counts
Merged == merge.pc = "done" /\ merge.report.printed

\* the lines of the foreign label file of an image (none without a file)
ForeignLines(img_path) ==
  IF img_path.stem \in DOMAIN merge.dataset.labels
  THEN merge.dataset.labels[img_path.stem] ELSE <<>>

\* the lines of a foreign label file whose class ID the table maps to a
\* project class
Survivors(lines, table) ==
  SelectSeq(lines, LAMBDA parts :
    /\ parts # <<>>
    /\ PyStr(parts[1]) \in DOMAIN table
    /\ table[PyStr(parts[1])] # "ignorar")

\* the lines of a foreign label file whose class ID has no entry in the table
NoEntry(lines, table) ==
  SelectSeq(lines, LAMBDA parts : parts # <<>> /\ PyStr(parts[1]) \notin DOMAIN table)

DestImage(img_path) == OutDir \o "/merged_" \o SourceName \o "_" \o img_path.name
DestLabel(img_path) == LabelsDir \o "/merged_" \o SourceName \o "_" \o img_path.stem \o ".txt"

\* the class IDs of the project, as they appear in a label file
ClassIds == {ToString(id) : id \in DOMAIN labeler.names}

\* C11: after process_and_copy, for each foreign image the destination image
\* and the destination label file both exist when a line of its label file
\* survives translation and both do not exist otherwise; the destination label
\* file holds the surviving lines with the translated ID, and no line of a
\* class mapped to 'ignorar'.
C11_MergeRoundTrip ==
  Merged =>
    \A k \in DOMAIN merge.image_files :
      LET img_path == merge.image_files[k]
          kept == Survivors(ForeignLines(img_path), merge.translation_map)
      IN /\ Exists(fs, DestImage(img_path)) <=> kept # <<>>
         /\ Exists(labels, DestLabel(img_path)) <=> kept # <<>>
         /\ kept # <<>> =>
              /\ Len(labels[DestLabel(img_path)]) = Len(kept)
              /\ \A j \in DOMAIN kept :
                   /\ labels[DestLabel(img_path)][j][1] =
                        merge.translation_map[PyStr(kept[j][1])]
                   /\ labels[DestLabel(img_path)][j][1] # "ignorar"

C11_Witness ==
  /\ Merged
  /\ merge.copied_count >= 1 /\ merge.ignored_count >= 1
  /\ \E k \in DOMAIN merge.image_files :
       LET lines == ForeignLines(merge.image_files[k])
           kept == Survivors(lines, merge.translation_map)
       IN /\ kept # <<>> /\ Len(kept) < Len(lines)
          /\ \E j \in DOMAIN lines :
               /\ lines[j] # <<>>
               /\ PyStr(lines[j][1]) \in DOMAIN merge.translation_map
               /\ merge.translation_map[PyStr(lines[j][1])] = "ignorar"

\* C16: every line of a label file written by run_auto_label or by
\* process_and_copy starts with a class ID of the project class map; a
\* detection or a foreign line whose class has no mapping entry is left out
\* without an error; the merge copies the fields after the ID unchanged.
C16_ClassIdsInClassMap ==
  /\ \A p \in DOMAIN labels : \A j \in DOMAIN labels[p] : labels[p][j][1] \in ClassIds
  /\ merge.exc \in {"", "EOFError", "OSError"}
  /\ Merged =>
       \A k \in DOMAIN merge.image_files :
         LET img_path == merge.image_files[k]
             kept == Survivors(ForeignLines(img_path), merge.translation_map)
         IN \A j \in DOMAIN kept :
              Tail(labels[DestLabel(img_path)][j]) = Tail(kept[j])
  /\ \A k \in DOMAIN labeler.predicted :
       LET stem == labeler.predicted[k].stem
           boxes == Detections[fs[ImagePath(stem \o ".jpg")].pos % 4]
       IN Len(labels[LabelPath(stem)]) =
            Cardinality({b \in DOMAIN boxes : boxes[b].cls \in DOMAIN labeler.mapping})

C16_Witness ==
  /\ Merged /\ merge.copied_count >= 1
  /\ \E k \in DOMAIN merge.image_files :
       NoEntry(ForeignLines(merge.image_files[k]), merge.translation_map) # <<>>
  /\ labeler.pc = "done" /\ labeler.written_count >= 1 /\ labeler.unmapped >= 1

\* the lines the merge dropped because their class ID has no mapping entry
RECURSIVE DroppedLines(_)
DroppedLines(k) ==
  IF k = 0 THEN 0
  ELSE Len(NoEntry(ForeignLines(merge.image_files[k]), merge.translation_map))
         + DroppedLines(k - 1)

\* C17: the number of label lines dropped for want of a mapping entry is
\* among the counts the merge prints when it finishes.
C17_DroppedCountReported ==
  Merged =>
    DroppedLines(Len(merge.image_files))
      \in {merge.report.copied_count, merge.report.ignored_count}

\* C18: a failed copy of an image or write of a label file does not end the
\* merge: the pair is skipped and the merge goes on to print its counts.
C18_WriteFailureIsolated == ~(merge.pc = "raised" /\ merge.exc = "OSError")

\* C19: every path process_and_copy writes did not exist in the Frame Store
\* before that write.
C19_OnlyAdds == \A k \in DOMAIN merge.writes : ~merge.writes[k].existed

\* the list form of the classes of a mapping form
ListForm(names) ==
  [kind |-> "list", items |-> [k \in DOMAIN names.items |-> names.items[k][2]]]

\* what the list form of the same classes gives under the same answers
ListMapping ==
  get_interactive_mapping(
    load_new_dataset_config(
      Yaml("list", ListForm(merge.names).items, "train")).new_classes_map,
    merge.stream, MAIN_CLASSES_MAP(labeler.names), <<>>)

\* C20: a class list given as a mapping keyed 0, 1, ... in order, with integer
\* or string keys, leads under the same answers to the translation table and
\* to the translated label files of the same classes given as a list.
C20_FormsEquivalent ==
  (/\ merge.pc # "idle" /\ merge.names.kind = "dict"
   /\ \A k \in DOMAIN merge.names.items :
        merge.names.items[k][1] \in {PyInt(k - 1), PyStr(ToString(k - 1))})
    => /\ (merge.pc = "raised" /\ merge.exc = "EOFError") <=> ListMapping.raised
       /\ ~ListMapping.raised => merge.translation_map = ListMapping.translation_map
       /\ Merged =>
            \A k \in DOMAIN merge.image_files :
              LET img_path == merge.image_files[k]
                  lines == NewLabelLines(ForeignLines(img_path),
                                         ListMapping.translation_map)
              IN IF lines = <<>> THEN ~Exists(labels, DestLabel(img_path))
                 ELSE labels[DestLabel(img_path)] = lines

C20_Witness ==
  /\ Merged /\ merge.copied_count >= 1
  /\ merge.names.kind = "dict" /\ merge.names.items[1][1].t = "int"
  /\ \E x \in DOMAIN merge.translation_map : merge.translation_map[x] = "ignorar"

------------------------------------------------------------------------------
\* Properties of the merge mapping, of the extraction strategies, of the
\* extraction logs and of the reports

\* the classes of the foreign dataset, as pairs <<ID, name>>
NewClasses ==
  load_new_dataset_config(Yaml(merge.names.kind, merge.names.items, "train")).new_classes_map

\* C21 as claimed: a foreign class whose name equals a project class name is
\* translated to that project class's ID, whatever the caller answers.
C21_DirectLookup ==
  merge.pc \in {"merge", "done"} =>
    \A k \in DOMAIN NewClasses :
      LET new_id_str == str(NewClasses[k][1])
          new_name == NewClasses[k][2]
      IN (new_name \in DOMAIN MAIN_CLASSES_MAP(labeler.names)
          /\ new_id_str \in DOMAIN merge.translation_map) =>
           merge.translation_map[new_id_str] = MAIN_CLASSES_MAP(labeler.names)[new_name]

\* round(x) of Python for x = num / den >= 0: the nearest integer, the even one
\* of the two when x lies halfway
PyRound(num, den) ==
  LET q == num \div den
      r == num % den
  IN IF 2 * r < den THEN q
     ELSE IF 2 * r > den THEN q + 1
     ELSE IF q % 2 = 0 THEN q ELSE q + 1

\* C24 as claimed: with every read succeeding, time-interval extraction writes
\* the frames at 0, s, 2s, ... for s = round(fps * interval_seconds), and
\* returns min(max_frames, ceil(total_frames / s)).
C24_RoundedStride ==
  (/\ Returned /\ call.op = "extract_time_intervals"
   /\ call.video.openable /\ call.video.bad = {}
   /\ Len(call.video.frames) = call.video.total_frames) =>
    LET s == PyRound(call.video.fps * call.interval_seconds, 1000)
        n == Min(call.max_frames, RangeLen(call.video.total_frames, s))
    IN /\ result.value = n
       /\ WrittenPositions(events) = [i \in 1..n |-> s * (i - 1)]

\* the frames a keyframe call saves if the first candidate is saved, and every
\* later one exactly when fewer than 60% of its features match the keyframe
\* saved last: `saved' are the positions saved so far, in order
RECURSIVE KeyframesByRule(_, _, _, _, _)
KeyframesByRule(v, max_frames, frame_interval, frame_num, saved) ==
  IF frame_num >= v.total_frames \/ Len(saved) >= max_frames THEN saved
  ELSE LET descriptors == FrameAt(v, frame_num).desc
           previous == FrameAt(v, saved[Len(saved)]).desc
           is_keyframe ==
             \/ saved = <<>>
             \/ 10 * Cardinality(descriptors \cap previous) < 6 * Cardinality(descriptors)
       IN KeyframesByRule(v, max_frames, frame_interval, frame_num + frame_interval,
                          IF is_keyframe THEN Append(saved, frame_num) ELSE saved)

\* C25 as claimed: with every read succeeding, keyframe extraction saves the
\* first candidate, and a later candidate exactly when fewer than 60% of its own
\* features match the keyframe saved last, also when a frame has no features.
C25_FirstOnlyUnconditional ==
  (/\ Returned /\ call.op = "extract_keyframes"
   /\ call.video.openable /\ call.video.bad = {}
   /\ Len(call.video.frames) = call.video.total_frames) =>
    WrittenPositions(events) =
      KeyframesByRule(call.video, call.max_frames,
                      Max(1, call.video.total_frames \div call.max_frames), 0, <<>>)

\* a video the analyzer returns an analysis of
Analysable(v) ==
  ~analyze_video_content(v).raised /\ analyze_video_content(v).value.ok

\* C26 as claimed: extract_adaptive with max_frames = N >= 1 on an analysable
\* video with a positive frame rate returns, without raising, a count <= N.
C26_AdaptiveReturns ==
  (/\ Ended /\ call.op = "extract_adaptive"
   /\ call.max_frames >= 1 /\ Analysable(call.video) /\ call.video.fps > 0) =>
    /\ Returned
    /\ result.value <= call.max_frames

\* the entries of the extraction log a single-strategy call wrote
ExtractionLog ==
  IF DOMAIN logs = {} THEN <<>> ELSE logs[CHOOSE f \in DOMAIN logs : TRUE].frames

\* the file name prefix of a strategy
Prefix(op) ==
  IF op = "extract_time_intervals" THEN "interval_"
  ELSE IF op = "extract_motion_based" THEN "motion_"
  ELSE "keyframe_"

\* C27: after a single-strategy extraction call the extraction log has as many
\* entries as the count returned and as image files written, the i-th entry
\* (from 0) names <prefix>_<i as 6 digits>.jpg, and frame_number is strictly
\* increasing along the entries.
C27_LogMatchesFiles ==
  (Returned /\ call.op \in SingleStrategyOps) =>
    /\ Len(ExtractionLog) = result.value
    /\ Len(ExtractionLog) = Cardinality(DOMAIN fs)
    /\ \A i \in DOMAIN ExtractionLog :
         /\ ExtractionLog[i].filename = Prefix(call.op) \o Format06d(i - 1) \o ".jpg"
         /\ Exists(fs, OutDir \o "/" \o ExtractionLog[i].filename)
         /\ i > 1 => ExtractionLog[i].frame_number > ExtractionLog[i - 1].frame_number

\* a motion-based call and a time-interval call that wrote two frames or more
C27_Witness ==
  /\ Returned /\ call.op \in {"extract_motion_based", "extract_time_intervals"}
  /\ result.value >= 2 /\ Len(ExtractionLog) = result.value

\* the processing report of a finished batch
Report == batch.report

RECURSIVE SumFrames(_)
SumFrames(processing_log) ==
  IF processing_log = <<>> THEN 0
  ELSE Head(processing_log).frames_extracted + SumFrames(Tail(processing_log))

RECURSIVE SumValues(_)
SumValues(f) ==
  IF DOMAIN f = {} THEN 0
  ELSE LET k == CHOOSE x \in DOMAIN f : TRUE
       IN f[k] + SumValues([x \in (DOMAIN f) \ {k} |-> f[x]])

StrategyNames == {"time_intervals", "motion_based", "keyframes", "adaptive"}

\* C28: in the processing report, total_frames_extracted is the sum of
\* frames_extracted over processing_log and the sum of the by_strategy totals,
\* videos_processed is the number of videos whose analysis succeeded, and
\* every by_strategy key is a strategy name.
C28_ReportTotals ==
  Report.written =>
    /\ Report.total_frames_extracted = SumFrames(Report.processing_log)
    /\ Report.total_frames_extracted = SumValues(Report.by_strategy)
    /\ Report.videos_processed =
         Cardinality({i \in DOMAIN batch.videos : Analysable(batch.videos[i])})
    /\ DOMAIN Report.by_strategy \subseteq StrategyNames

\* a report over two videos given the same strategy, both with frames extracted
C28_Witness ==
  /\ Report.written /\ Report.videos_processed = 2
  /\ Cardinality(DOMAIN Report.by_strategy) = 1
  /\ \A i \in DOMAIN Report.processing_log : Report.processing_log[i].frames_extracted >= 1

\* C29 as claimed: the i-th entry of an extraction log carries the source
\* position of the i-th frame written, and that position over fps as timestamp.
C29_FrameNumberIsPosition ==
  (Returned /\ call.op \in SingleStrategyOps) =>
    \A i \in DOMAIN ExtractionLog :
      LET p == WrittenPositions(events)[i]
      IN /\ ExtractionLog[i].frame_number = p
         /\ ExtractionLog[i].timestamp = Rat(p * 1000, call.video.fps)

\* C30: content_type is alto_movimiento when avg_motion > 5000,
\* movimiento_moderado when 1000 < avg_motion <= 5000 and estatico otherwise;
\* so keyframes is recommended only for estatico and motion_based only for
\* movimiento_moderado or alto_movimiento.
C30_ContentType ==
  (Returned /\ call.op = "analyze_video_content" /\ result.value.ok) =>
    LET a == result.value
        m == a.avg_motion
    IN /\ m.num > 5000 * m.den => a.content_type = "alto_movimiento"
       /\ (m.num > 1000 * m.den /\ m.num <= 5000 * m.den) =>
            a.content_type = "movimiento_moderado"
       /\ m.num <= 1000 * m.den => a.content_type = "estatico"
       /\ a.recommended_strategy = "keyframes" => a.content_type = "estatico"
       /\ a.recommended_strategy = "motion_based" =>
            a.content_type \in {"movimiento_moderado", "alto_movimiento"}

\* an analysis of high motion for which motion_based is recommended
C30_Witness ==
  /\ Returned /\ call.op = "analyze_video_content" /\ result.value.ok
  /\ result.value.content_type = "alto_movimiento"
  /\ result.value.recommended_strategy = "motion_based"

\* C22: after interactive_setup class ID 0 is 'persona', the class IDs are
\* 0..n-1 with no name repeated, the 'activities' map of work_config.yaml
\* equals the 'names' map of dataset.yaml, and nc is the number of names.
C22_ClassMapsAgree ==
  setup.pc = "done" =>
    LET names == setup.dataset.names
        n == setup.dataset.nc
    IN /\ names["0"] = "persona"
       /\ DOMAIN names = {ToString(id) : id \in 0..(n - 1)}
       /\ \A x, y \in DOMAIN names : names[x] = names[y] => x = y
       /\ setup.work_config.activities = names
       /\ n = Cardinality(DOMAIN names)

\* a finished run in which the user typed the name of a class twice
C22_Witness ==
  /\ setup.pc = "done" /\ setup.dataset.nc = 3
  /\ \E i, j \in DOMAIN setup.stream :
       /\ i < j /\ setup.stream[i] = setup.stream[j]
       /\ \E x \in DOMAIN setup.dataset.names : setup.dataset.names[x] = setup.stream[i]

\* C23 as claimed: no run of the menu with a choice 1..6 (choice 2 is the run
\* of smart_batch_process) ends in the error of an operation that does not
\* exist.
C23_ChoicesDispatch ==
  (/\ Ended
   /\ \/ call.op = "smart_batch_process"
      \/ call.op = "main" /\ call.choice \in {"1", "3", "4", "5", "6"}) =>
    ~(pc = "raised" /\ result.exc = "AttributeError")

====
